---- MODULE Spec2Model ----
(***************************************************************************)
(* Model of the QDMA accelerator drivers (apps/everest): the chunked       *)
(* transport of qdma_queues.c (queue_read / queue_write) and the           *)
(* ap_ctrl_hs control protocol of ptdr_dev.c / helm_dev.c built on it.     *)
(*                                                                         *)
(* A 32-bit register value is the set of its 1-bit positions: x & m is     *)
(* intersection, x | m is union, (x >> k) & 1 is membership of k.          *)
(* Device addresses are scaled to fit the checker's integers: the kernel   *)
(* register block sits at the non-zero address KERN_VF_INCR instead of     *)
(* KERN_BASE_ADDR + KERN_VF_INCR * vf (0x400000000 and up).                *)
(***************************************************************************)
EXTENDS Integers, Sequences, FiniteSets, TLC

VARIABLES
    qpc,      \* position of the running queue_read/queue_write call
    q,        \* its arguments and locals (size, addr, count, offset, bytes, ret)
    fdpos,    \* file position of the channel q_info->fd (kernel side)
    qtrace,   \* the system calls the running call has issued so far
    qerr,     \* which diagnostic the call printed on stderr
    drift,    \* transfers that moved the position since the last lseek
    regs,     \* the accelerator's register file (device side)
    dev,      \* the device handle (ptdr_dev_t / helm_dev_t)
    d,        \* the running ptdr_/helm_ device operation and its locals
    dlog,     \* the register accesses the running device operation has issued
    heap,     \* the handle's allocation and its channel (malloc/free, queue_setup/queue_destroy)
    api,      \* the running caller of device operations (ptdr_run_kernel, ptdr_dev_conf, a test) and its locals
    hist,     \* the device operations that caller has had back, in order
    mem,      \* the input area of device memory, in 8-byte words from MEM_BASE_ADDR
    rt,       \* the running ptdr_read_route_from_file: its file, its position in it, the descriptor
    th        \* the threads that call operations on one handle at once, and their locals

qvars == <<qpc, q, fdpos, qtrace, qerr, drift>>
dvars == <<dev, d, dlog>>
avars == <<heap, api, hist>>
vars == <<qpc, q, fdpos, qtrace, qerr, drift, regs, dev, d, dlog, heap, api, hist, mem,
         rt, th>>

----------------------------------------------------------------------------
(* Program constants *)

RW_MAX_SIZE == 429490584
REG_SIZE == 4
EIO == 5
EBUSY == 16
EINVAL == 22
EAGAIN == 11
ENOENT == 2
ENOMEM == 12
PTDR_CTRL_ADDR_DUR == 24
PTDR_CTRL_ADDR_ROUTE == 32
PTDR_CTRL_ADDR_POS == 40
PTDR_CTRL_ADDR_DEP == 48
PTDR_CTRL_ADDR_SEED == 56
PTDR_CTRL_ADDR_BASE == 64
MEM_BASE_ADDR == 4096
VEC_CONV_SIZE == 24
ROUTE_SIZE == 6888992
ROUTEPOS_SIZE == 16
U64_SIZE == 8
MAX_SIZE_SEGMENTS == 160
PROFILES_NUM == 672
PROFILE_VAL_NUM == 4
PTDR_CTRL_ADDR_CTRL == 0
PTDR_CTRL_ADDR_GIE == 4
HELM_CTRL_ADDR_CTRL == 0
HELM_CTRL_ADDR_GIE == 4
HELM_CTRL_ADDR_IN_DATA == 16
KERN_VF_INCR == 65536

(* Bounds of the model *)

MaxChunks == 3
MaxDrift == 2
MaxOps == 3
MaxTimeout == 2
MaxPolls == 2
MaxSamples == 2
MaxCalls == 2

----------------------------------------------------------------------------
(* Inputs and outcomes of the environment *)

\* errno values a failing lseek/read/write may leave (after the fprintf)
Errnos == {EIO, EINVAL}

\* sizes the callers request: register sized, and around the multiples of the cap
Sizes ==
    {0, 1, REG_SIZE}
    \cup {k * RW_MAX_SIZE + e : k \in 1..(MaxChunks - 1), e \in {-1, 0, 1}}
    \cup {MaxChunks * RW_MAX_SIZE}

\* device addresses the callers pass
Addrs == {0, REG_SIZE, 4096}

Max(a, b) == IF a > b THEN a ELSE b

\* what lseek(fd, offset, SEEK_SET) may return: failure, the offset, another position
SeekOutcomes(offset) == {-1, offset, offset - 1}

\* end of the device's address space: a transfer that would run past it fails
DevEnd == (MaxChunks + 1) * RW_MAX_SIZE

\* what read/write(fd, buf, bytes) at position pos may return: failure, all of
\* it, or less
XferOutcomes(pos, bytes) ==
    IF bytes > DevEnd - pos THEN {-1}
    ELSE {-1, bytes} \cup (IF bytes > 0 THEN {0, bytes - 1} ELSE {})

----------------------------------------------------------------------------
(* The device behind the channel *)

\* the bits of a small non-negative constant, e.g. 0x80 -> {7}
BitsOf(n) == {i \in 0..30 : (n \div (2 ^ i)) % 2 = 1}

\* address of the kernel's register block (dev->base)
KernAddr == KERN_VF_INCR

RegOffsets == {PTDR_CTRL_ADDR_CTRL, PTDR_CTRL_ADDR_GIE}

\* the registers of the kernel's arguments: five offsets, and the base in two
\* words
ArgOffsets ==
    {PTDR_CTRL_ADDR_DUR, PTDR_CTRL_ADDR_ROUTE, PTDR_CTRL_ADDR_POS,
     PTDR_CTRL_ADDR_DEP, PTDR_CTRL_ADDR_SEED, PTDR_CTRL_ADDR_BASE,
     PTDR_CTRL_ADDR_BASE + REG_SIZE}

\* the input register of the helm kernel, in two words
InOffsets == {HELM_CTRL_ADDR_IN_DATA, HELM_CTRL_ADDR_IN_DATA + REG_SIZE}

IsRegAccess(pos, bytes) ==
    bytes = REG_SIZE /\ (pos - KernAddr) \in (RegOffsets \cup ArgOffsets \cup InOffsets)

\* a write of r of the 4 bytes replaces the low 8*r bits (little endian); rf
\* holds the registers a specification follows
DevWrite(rf, pos, bytes, data, r) ==
    IF IsRegAccess(pos, bytes) /\ (pos - KernAddr) \in DOMAIN rf /\ r > 0
    THEN [rf EXCEPT ![pos - KernAddr] =
              {b \in @ : b >= 8 * r} \cup {b \in data : b < 8 * r}]
    ELSE rf

\* the buffer after a complete read
DevRead(rf, pos, bytes, buf) ==
    IF IsRegAccess(pos, bytes) /\ (pos - KernAddr) \in DOMAIN rf
    THEN rf[pos - KernAddr] ELSE buf

\* byte sizes in 8-byte words (every field of the input is a multiple of 8)
Words(bytes) == bytes \div U64_SIZE

\* the words of device memory the model follows: the conversion header and
\* the duration vector of the largest input, and one word more
MemWindow == 0..(Words(VEC_CONV_SIZE) + MaxSamples)

ZeroMem == [w \in MemWindow |-> 0]

\* a transfer of r bytes at pos touches the words from pos on that hold one
\* of its bytes; the values of the model are below 256, so the first byte of
\* a word is the word (little endian)
Touched(pos, r) ==
    IF pos < MEM_BASE_ADDR \/ (pos - MEM_BASE_ADDR) % U64_SIZE # 0 \/ r <= 0 THEN {}
    ELSE {w \in MemWindow : /\ w >= Words(pos - MEM_BASE_ADDR)
                            /\ w < Words(pos - MEM_BASE_ADDR) + Words(r + U64_SIZE - 1)}

\* word w of the window within a buffer whose byte `done` went to pos
BufIndex(pos, done, w) == Words(done) + (w - Words(pos - MEM_BASE_ADDR)) + 1

\* write(fd, buf + count, bytes) moved r bytes: the buffer is buf followed by
\* zeroes
MemWrite(m, pos, r, buf, done) ==
    [w \in MemWindow |->
        IF w \in Touched(pos, r)
        THEN IF BufIndex(pos, done, w) <= Len(buf) THEN buf[BufIndex(pos, done, w)]
             ELSE 0
        ELSE m[w]]

\* read(fd, buf + count, bytes) moved r bytes into the buffer
MemRead_stale(m, pos, r, buf, done) == buf

MemRead(m, pos, r, buf, done) ==
    [i \in 1..Len(buf) |->
        IF \E w \in Touched(pos, r) : BufIndex(pos, done, w) = i
        THEN m[CHOOSE w \in Touched(pos, r) : BufIndex(pos, done, w) = i]
        ELSE buf[i]]

\* the channel position after a transfer of r bytes: advanced by the bytes
\* moved (read(2)), or left where it was (a driver that does not update it)
PosAfter(pos, r) == IF r > 0 THEN {pos, pos + r} ELSE {pos}

----------------------------------------------------------------------------
(* queue_read / queue_write *)

\* bytes = size - count, capped at RW_MAX_SIZE
ChunkBytes_uncapped(size, count) == size - count

ChunkBytes(size, count) ==
    IF size - count > RW_MAX_SIZE THEN RW_MAX_SIZE ELSE size - count

\* the checks after lseek: 0 stands for "go on", a negative value is returned
SeekCheck_nomismatch(ret, offset, errno) ==
    IF ret < 0 THEN -errno ELSE 0

SeekCheck(ret, offset, errno) ==
    IF ret < 0 THEN -errno
    ELSE IF ret # offset THEN -EIO
    ELSE 0

\* the checks after read/write
XferCheck_acceptshort(ret, bytes, errno) ==
    IF ret < 0 THEN -errno ELSE 0

XferCheck(ret, bytes, errno) ==
    IF ret < 0 THEN -errno
    ELSE IF ret # bytes THEN -EIO
    ELSE 0

\* the diagnostic printed with each failure
SeekDiag(ret, offset) ==
    IF ret < 0 THEN "seek_failed"
    ELSE IF ret # offset THEN "seek_mismatch"
    ELSE "none"

XferDiag(ret, bytes) ==
    IF ret < 0 THEN "xfer_failed"
    ELSE IF ret # bytes THEN "xfer_short"
    ELSE "none"

\* where the call goes after a transfer: out on a failure, round the loop
\* while (count < size), out with the tail check otherwise
AfterXfer_retry(chk, count, size) ==
    IF chk # 0 THEN "top"
    ELSE IF count < size THEN "top"
    ELSE "ret"

AfterXfer(chk, count, size) ==
    IF chk # 0 THEN "ret"
    ELSE IF count < size THEN "top"
    ELSE "ret"

\* if (count != size) return -EIO; return count;
TailResult(count, size) == IF count # size THEN -EIO ELSE count

NoCall == [caller |-> "none", op |-> "none", size |-> 0, addr |-> 0, data |-> {},
           count |-> 0, offset |-> 0, bytes |-> 0, ret |-> 0, words |-> <<>>]

\* entry of queue_read/queue_write: count = 0, offset = addr
QueueEnter(caller, op, size, addr, data) ==
    /\ qpc' = "top"
    /\ q' = [caller |-> caller, op |-> op, size |-> size, addr |-> addr,
             data |-> data, count |-> 0, offset |-> addr, bytes |-> 0, ret |-> 0,
             words |-> <<>>]
    /\ qtrace' = <<>>
    /\ qerr' = "none"
    /\ fdpos' = fdpos
    /\ drift' = drift

\* entry of queue_read/queue_write on device memory: buf holds the words
QueueEnterMem(caller, op, size, addr, buf) ==
    /\ qpc' = "top"
    /\ q' = [caller |-> caller, op |-> op, size |-> size, addr |-> addr,
             data |-> {}, count |-> 0, offset |-> addr, bytes |-> 0, ret |-> 0,
             words |-> buf]
    /\ qtrace' = <<>>
    /\ qerr' = "none"
    /\ fdpos' = fdpos
    /\ drift' = drift

\* a caller outside the device layer (ptdr_test.c, ptdr_mem_write/read)
QueueCall ==
    /\ qpc = "idle"
    /\ d.pc = "idle"
    /\ \E op \in {"read", "write"}, size \in Sizes, addr \in Addrs :
          /\ addr = 0 => drift < MaxDrift
          /\ QueueEnter("app", op, size, addr, {})
    /\ UNCHANGED <<regs, dev, d, dlog, heap, api, hist, mem, rt, th>>

\* lseek(fd, offset, SEEK_SET) when offset is non-zero
QueueSeek ==
    /\ qpc = "top"
    /\ q.offset # 0
    /\ \E r \in SeekOutcomes(q.offset), e \in Errnos :
          LET chk == SeekCheck(r, q.offset, e) IN
          /\ qtrace' = Append(qtrace, [call |-> "lseek", arg |-> q.offset,
                                       pos |-> fdpos, done |-> q.count, ret |-> r])
          /\ fdpos' = IF r >= 0 THEN r ELSE fdpos
          /\ drift' = IF r >= 0 THEN 0 ELSE drift
          /\ qerr' = SeekDiag(r, q.offset)
          /\ q' = [q EXCEPT !.bytes = ChunkBytes(q.size, q.count), !.ret = chk]
          /\ qpc' = IF chk # 0 THEN "ret" ELSE "xfer"
    /\ UNCHANGED <<regs, dev, d, dlog, heap, api, hist, mem, rt, th>>

\* if (offset) is false: no positioning, the transfer uses the current position
QueueNoSeek ==
    /\ qpc = "top"
    /\ q.offset = 0
    /\ q' = [q EXCEPT !.bytes = ChunkBytes(q.size, q.count)]
    /\ qpc' = "xfer"
    /\ UNCHANGED <<fdpos, qtrace, qerr, drift, regs, dev, d, dlog, heap, api, hist, mem, rt, th>>

\* read(fd, buf, bytes) / write(fd, buf, bytes), the checks and the loop condition
QueueXfer ==
    /\ qpc = "xfer"
    /\ \E r \in XferOutcomes(fdpos, q.bytes), e \in Errnos : \E np \in PosAfter(fdpos, r) :
          LET chk == XferCheck(r, q.bytes, e)
              count == q.count + q.bytes
              next == AfterXfer(chk, count, q.size)
              words == IF q.op = "read" THEN MemRead(mem, fdpos, r, q.words, q.count)
                       ELSE q.words
          IN
          /\ qtrace' = Append(qtrace, [call |-> q.op, arg |-> q.bytes,
                                       pos |-> fdpos, done |-> q.count, ret |-> r])
          /\ fdpos' = np
          /\ drift' = IF np # fdpos THEN drift + 1 ELSE drift
          /\ qerr' = IF XferDiag(r, q.bytes) # "none" THEN XferDiag(r, q.bytes) ELSE qerr
          /\ regs' = IF q.op = "write" THEN DevWrite(regs, fdpos, q.bytes, q.data, r)
                     ELSE regs
          /\ mem' = IF q.op = "write" THEN MemWrite(mem, fdpos, r, q.words, q.count)
                    ELSE mem
          /\ q' = IF chk # 0 THEN [q EXCEPT !.ret = chk, !.words = words]
                  ELSE [q EXCEPT !.count = count,
                                 !.offset = q.offset + q.bytes,
                                 !.data = IF q.op = "read"
                                          THEN DevRead(regs, fdpos, q.bytes, q.data)
                                          ELSE q.data,
                                 !.words = words,
                                 !.ret = IF next = "ret"
                                         THEN TailResult(count, q.size) ELSE 0]
          /\ qpc' = next
    /\ UNCHANGED <<dev, d, dlog, heap, api, hist, rt, th>>

\* the call returns to a caller outside the device layer
QueueReturn ==
    /\ qpc = "ret"
    /\ q.caller = "app"
    /\ qpc' = "idle"
    /\ q' = NoCall
    /\ qtrace' = <<>>
    /\ qerr' = "none"
    /\ UNCHANGED <<fdpos, drift, regs, dev, d, dlog, heap, api, hist, mem, rt, th>>


IdleDev == [kern |-> "none", fn |-> "none", pc |-> "idle", data |-> {},
            ret |-> 0, enable |-> 0]

\* no route file is being read
NoRoute == [pc |-> "idle"]

\* the threads of a caller that shares its handle, and a thread at rest
Threads == {1, 2}

IdleThread == [fn |-> "none", pc |-> "idle", enable |-> 0, data |-> {}, ret |-> 0]

NoThreads == [t \in Threads |-> IdleThread]

\* what the caller keeps of its last call of ptdr_dev_conf or
\* ptdr_dev_get_durv: the result and, when it is 0, the count and the
\* duration buffer
NoResult == [fn |-> "none", ret |-> 0, samples |-> 0, dur |-> <<>>]

\* no caller of device operations is running
NoApi == [fn |-> "none", pc |-> "idle", timeout |-> 0, count |-> 0, ret |-> 0,
          samples |-> 0, dur |-> <<>>, avail |-> [words |-> 0, rem |-> 0],
          route |-> "unread", buf |-> <<>>, calls |-> 0, last |-> NoResult]

\* a handle after a successful ptdr_dev_init: allocated, channel set up
LiveHeap == [block |-> "live", chan |-> "open"]

\* before ptdr_dev_init: nothing allocated, no channel
NoHeap == [block |-> "none", chan |-> "none"]

ValidDev(kern) ==
    [ptr |-> "block", kern |-> kern, base |-> KernAddr, sign |-> "magic",
     q_info |-> "chan"]

NullDev(kern) ==
    [ptr |-> "null", kern |-> kern, base |-> 0, sign |-> "none", q_info |-> "null"]

----------------------------------------------------------------------------
(* ptdr_dev.c / helm_dev.c: register access and the control protocol *)

\* (uint32_t) x
Uint32(x) == {b \in x : b < 32}

\* x << k on a bit set of 64 bits
Shl(x, k) == {b + k : b \in {c \in x : c + k < 64}}

\* x >> k on a bit set
Shr(x, k) == {b - k : b \in {c \in x : c >= k}}

\* the integer a bit set below bit 31 stands for
RECURSIVE IntOf(_)
IntOf(x) ==
    IF x = {} THEN 0
    ELSE LET b == CHOOSE c \in x : TRUE IN (2 ^ b) + IntOf(x \ {b})

Bool(b) == IF b THEN 1 ELSE 0

\* the writes among the accesses of a log
Writes(log) == {i \in 1..Len(log) : log[i].op = "W"}

\* queue_read(...) != REG_SIZE: 0 on success, 1 on any failure
ptdr_reg_read(qret) == IF qret # REG_SIZE THEN 1 ELSE 0
ptdr_reg_write(qret) == IF qret # REG_SIZE THEN 1 ELSE 0
helm_reg_read(qret) == IF qret # REG_SIZE THEN 1 ELSE 0
helm_reg_write(qret) == IF qret # REG_SIZE THEN 1 ELSE 0

\* what a function does once its register read is back: return a value, or
\* write a value to the control register
Return(v) == [act |-> "return", ret |-> v, val |-> {}]
Write(v) == [act |-> "write", ret |-> 0, val |-> v]

ptdr_start_nobusy(failed, data) ==
    IF failed # 0 THEN Return(-EIO)
    ELSE Write((data \cap BitsOf(128)) \cup BitsOf(1))

ptdr_start_nomask(failed, data) ==
    IF failed # 0 THEN Return(-EIO)
    ELSE IF data \cap BitsOf(1) # {} THEN Return(-EBUSY)
    ELSE Write(data \cup BitsOf(1))

ptdr_start(failed, data) ==
    IF failed # 0 THEN Return(-EIO)
    ELSE IF data \cap BitsOf(1) # {} THEN Return(-EBUSY)
    ELSE Write((data \cap BitsOf(128)) \cup BitsOf(1))

ptdr_isdone(failed, data) ==
    IF failed # 0 THEN Return(-EIO)
    ELSE Return(IntOf(Shr(data, 1) \cap BitsOf(1)))

ptdr_isidle(failed, data) ==
    IF failed # 0 THEN Return(-EIO)
    ELSE Return(IntOf(Shr(data, 2) \cap BitsOf(1)))

ptdr_isready_bit3(failed, data) ==
    IF failed # 0 THEN Return(-EIO)
    ELSE Return(IntOf(Shr(data, 3) \cap BitsOf(1)))

ptdr_isready_inverted(failed, data) ==
    IF failed # 0 THEN Return(-EIO)
    ELSE Return(IF data \cap BitsOf(1) # {} THEN 1 ELSE 0)

ptdr_isready(failed, data) ==
    IF failed # 0 THEN Return(-EIO)
    ELSE Return(IF data \cap BitsOf(1) # {} THEN 0 ELSE 1)

ptdr_continue_nomask(failed, data) ==
    IF failed # 0 THEN Return(-EIO)
    ELSE Write(data \cup BitsOf(16))

ptdr_continue_dropautorestart(failed, data) ==
    IF failed # 0 THEN Return(-EIO)
    ELSE Write(BitsOf(16))

ptdr_continue_keepstart(failed, data) ==
    IF failed # 0 THEN Return(-EIO)
    ELSE Write((data \cap BitsOf(129)) \cup BitsOf(16))

ptdr_continue(failed, data) ==
    IF failed # 0 THEN Return(-EIO)
    ELSE Write((data \cap BitsOf(128)) \cup BitsOf(16))

ptdr_autorestart_passthrough(enable) ==
    Write(BitsOf(enable))

ptdr_autorestart(enable) ==
    Write(IF enable = 0 THEN BitsOf(0) ELSE BitsOf(128))

helm_start(failed, data) ==
    IF failed # 0 THEN Return(-EIO)
    ELSE IF data \cap BitsOf(1) # {} THEN Return(-EBUSY)
    ELSE Write((data \cap BitsOf(128)) \cup BitsOf(1))

helm_isdone(failed, data) ==
    IF failed # 0 THEN Return(-EIO)
    ELSE Return(IntOf(Shr(data, 1) \cap BitsOf(1)))

helm_isidle(failed, data) ==
    IF failed # 0 THEN Return(-EIO)
    ELSE Return(IntOf(Shr(data, 2) \cap BitsOf(1)))

helm_isready_bit3(failed, data) ==
    IF failed # 0 THEN Return(-EIO)
    ELSE Return(IntOf(Shr(data, 3) \cap BitsOf(1)))

helm_isready(failed, data) ==
    IF failed # 0 THEN Return(-EIO)
    ELSE Return(IF data \cap BitsOf(1) # {} THEN 0 ELSE 1)

helm_continue(failed, data) ==
    IF failed # 0 THEN Return(-EIO)
    ELSE Write((data \cap BitsOf(128)) \cup BitsOf(16))

helm_autorestart(enable) ==
    Write(IF enable = 0 THEN BitsOf(0) ELSE BitsOf(128))

\* data = (enable == 0) ? 0 : 0x01, written to the GIE register
ptdr_interruptglobal(enable) ==
    Write(IF enable = 0 THEN BitsOf(0) ELSE BitsOf(1))

helm_interruptglobal(enable) ==
    Write(IF enable = 0 THEN BitsOf(0) ELSE BitsOf(1))

\* if (reg_write(...)) return -EIO; return 0;
WriteResult(failed) == IF failed # 0 THEN -EIO ELSE 0

\* CHECK_DEV_PTR: 0 stands for "go on", -EINVAL is returned
CHECK_DEV_PTR(ptr, q_info, sign) ==
    IF ptr = "null" \/ q_info = "null" \/ sign # "magic" THEN -EINVAL ELSE 0

\* what the check reads through the pointer: the fields of a live block; a
\* freed block may hold anything (its old contents, the allocator's links, the
\* fields of a handle allocated since)
Fields(h, hp) ==
    IF h.ptr # "null" /\ hp.block = "freed"
    THEN [q_info : {"null", "chan"}, sign : {"magic", "cleared"}]
    ELSE {[q_info |-> h.q_info, sign |-> h.sign]}

Kerns == {"ptdr", "helm"}
ReadFns == {"start", "isdone", "isidle", "isready", "continue"}

CtrlReg(kern) == IF kern = "ptdr" THEN PTDR_CTRL_ADDR_CTRL ELSE HELM_CTRL_ADDR_CTRL

RegRead(kern, qret) == IF kern = "ptdr" THEN ptdr_reg_read(qret) ELSE helm_reg_read(qret)
RegWrite(kern, qret) == IF kern = "ptdr" THEN ptdr_reg_write(qret) ELSE helm_reg_write(qret)

AfterRead(kern, fn, failed, data) ==
    IF kern = "ptdr" THEN
        CASE fn = "start" -> ptdr_start(failed, data)
          [] fn = "isdone" -> ptdr_isdone(failed, data)
          [] fn = "isidle" -> ptdr_isidle(failed, data)
          [] fn = "isready" -> ptdr_isready(failed, data)
          [] fn = "continue" -> ptdr_continue(failed, data)
    ELSE
        CASE fn = "start" -> helm_start(failed, data)
          [] fn = "isdone" -> helm_isdone(failed, data)
          [] fn = "isidle" -> helm_isidle(failed, data)
          [] fn = "isready" -> helm_isready(failed, data)
          [] fn = "continue" -> helm_continue(failed, data)

\* the 64-bit register of ptdr_set_base/ptdr_get_base and of
\* helm_set_in/helm_get_in: its low word, the high word is REG_SIZE further
BaseReg(kern) ==
    IF kern = "ptdr" THEN PTDR_CTRL_ADDR_BASE ELSE HELM_CTRL_ADDR_IN_DATA

\* *data = ((uint64_t) data0) | ((uint64_t) data1 << 32)
ptdr_get_base_swapped(data0, data1) == data1 \cup Shl(data0, 32)

ptdr_get_base(data0, data1) == data0 \cup Shl(data1, 32)

helm_get_in(data0, data1) == data0 \cup Shl(data1, 32)

Autorestart(kern, enable) ==
    IF kern = "ptdr" THEN ptdr_autorestart(enable) ELSE helm_autorestart(enable)

QueueIdle ==
    /\ qpc' = "idle"
    /\ q' = NoCall
    /\ qtrace' = <<>>
    /\ qerr' = "none"
    /\ UNCHANGED <<fdpos, drift>>

\* the check failed: return -EINVAL, nothing else is done
DevInvalid(fn) ==
    /\ d' = [kern |-> dev.kern, fn |-> fn, pc |-> "ret", data |-> {},
             ret |-> -EINVAL, enable |-> 0]
    /\ UNCHANGED qvars

\* the check passed: the control register is read
DevEnterRead(fn) ==
    /\ d' = [kern |-> dev.kern, fn |-> fn, pc |-> "rd", data |-> {},
             ret |-> 0, enable |-> 0]
    /\ QueueEnter("dev", "read", REG_SIZE, dev.base + CtrlReg(dev.kern), {})

\* entry of start, isdone, isidle, isready, continue
DevEnter(fn) ==
    /\ \E f \in Fields(dev, heap) :
          IF CHECK_DEV_PTR(dev.ptr, f.q_info, f.sign) # 0
          THEN DevInvalid(fn)
          ELSE DevEnterRead(fn)
    /\ dlog' = <<>>

\* entry of autorestart: the control register is written, not read
DevEnterAutorestart(enable) ==
    /\ \E f \in Fields(dev, heap) :
          IF CHECK_DEV_PTR(dev.ptr, f.q_info, f.sign) # 0
          THEN DevInvalid("autorestart")
          ELSE LET w == Autorestart(dev.kern, enable) IN
               /\ d' = [kern |-> dev.kern, fn |-> "autorestart", pc |-> "wr",
                        data |-> w.val, ret |-> 0, enable |-> enable]
               /\ QueueEnter("dev", "write", REG_SIZE,
                             dev.base + CtrlReg(dev.kern), w.val)
    /\ dlog' = <<>>

GieReg(kern) == IF kern = "ptdr" THEN PTDR_CTRL_ADDR_GIE ELSE HELM_CTRL_ADDR_GIE

Interruptglobal(kern, enable) ==
    IF kern = "ptdr" THEN ptdr_interruptglobal(enable) ELSE helm_interruptglobal(enable)

\* entry of interruptglobal: the GIE register is written, not read
DevCallInterruptglobal ==
    /\ d.pc = "idle"
    /\ qpc = "idle"
    /\ api.fn = "none"
    /\ \E enable \in {0, 1, 2} : \E f \in Fields(dev, heap) :
          IF CHECK_DEV_PTR(dev.ptr, f.q_info, f.sign) # 0
          THEN DevInvalid("interruptglobal")
          ELSE LET w == Interruptglobal(dev.kern, enable) IN
               /\ d' = [kern |-> dev.kern, fn |-> "interruptglobal", pc |-> "wr",
                        data |-> w.val, ret |-> 0, enable |-> enable]
               /\ QueueEnter("dev", "write", REG_SIZE,
                             dev.base + GieReg(dev.kern), w.val)
    /\ dlog' = <<>>
    /\ UNCHANGED <<regs, dev, heap, api, hist, mem, rt, th>>

\* a caller outside the model's callers invokes a control operation
DevCall ==
    /\ d.pc = "idle"
    /\ qpc = "idle"
    /\ api.fn = "none"
    /\ \E fn \in ReadFns : DevEnter(fn)
    /\ UNCHANGED <<regs, dev, heap, api, hist, mem, rt, th>>

DevCallAutorestart ==
    /\ d.pc = "idle"
    /\ qpc = "idle"
    /\ api.fn = "none"
    /\ \E enable \in {0, 1, 2} : DevEnterAutorestart(enable)
    /\ UNCHANGED <<regs, dev, heap, api, hist, mem, rt, th>>

\* the register read is back: the function returns or writes the register
DevReadDone ==
    /\ d.pc = "rd"
    /\ d.fn \in ReadFns
    /\ qpc = "ret"
    /\ q.caller = "dev"
    /\ LET failed == RegRead(d.kern, q.ret)
           dec == AfterRead(d.kern, d.fn, failed, q.data)
       IN
       /\ dlog' = Append(dlog, [op |-> "R", addr |-> q.addr, failed |-> failed,
                                val |-> IF failed = 0 THEN q.data ELSE {}])
       /\ IF dec.act = "write"
          THEN /\ d' = [d EXCEPT !.pc = "wr", !.data = dec.val]
               /\ QueueEnter("dev", "write", REG_SIZE,
                             dev.base + CtrlReg(d.kern), dec.val)
          ELSE /\ d' = [d EXCEPT !.pc = "ret", !.ret = dec.ret]
               /\ QueueIdle
    /\ UNCHANGED <<regs, dev, heap, api, hist, mem, rt, th>>

\* the register write is back: the function returns
DevWriteDone ==
    /\ d.pc = "wr"
    /\ qpc = "ret"
    /\ q.caller = "dev"
    /\ LET failed == RegWrite(d.kern, q.ret) IN
       /\ dlog' = Append(dlog, [op |-> "W", addr |-> q.addr, failed |-> failed,
                                val |-> q.data])
       /\ IF d.fn = "set_base" /\ failed = 0 /\ dlog = <<>>
          THEN \* ptdr_set_base: (uint32_t) (data >> 32) follows the low word
               /\ d' = d
               /\ QueueEnter("dev", "write", REG_SIZE,
                             dev.base + BaseReg(d.kern) + REG_SIZE,
                             Uint32(Shr(d.data, 32)))
          ELSE /\ d' = [d EXCEPT !.pc = "ret", !.ret = WriteResult(failed)]
               /\ QueueIdle
    /\ UNCHANGED <<regs, dev, heap, api, hist, mem, rt, th>>

\* the caller has the result
DevReturn ==
    /\ d.pc = "ret"
    /\ api.fn = "none"
    /\ d' = IdleDev
    /\ dlog' = <<>>
    /\ UNCHANGED <<qvars, regs, dev, heap, api, hist, mem, rt, th>>

----------------------------------------------------------------------------
(* ptdr_dev_init / ptdr_dev_destroy: the life of a handle.  A pointer is     *)
(* 0 (NULL) or 1 in the results.                                            *)

\* the steps of ptdr_dev_destroy after the check, as logged accesses
Teardown == [op |-> "D", addr |-> 0, failed |-> 0, val |-> {}]

\* malloc, queue_setup, base = dev_addr, then the probe read of the control
\* register; __sign is not yet written
DevInitEnter(kern) ==
    \E m \in {"ok", "nomem"}, qs \in {"ok", "fail"} :
        /\ dlog' = <<>>
        /\ IF m = "nomem"
           THEN /\ d' = [kern |-> kern, fn |-> "init", pc |-> "ret", data |-> {},
                         ret |-> 0, enable |-> 0]
                /\ UNCHANGED <<qvars, dev, heap>>
           ELSE IF qs = "fail"
           THEN /\ d' = [kern |-> kern, fn |-> "init", pc |-> "ret", data |-> {},
                         ret |-> 0, enable |-> 0]
                /\ heap' = [block |-> "freed", chan |-> "none"]
                /\ UNCHANGED <<qvars, dev>>
           ELSE /\ d' = [kern |-> kern, fn |-> "init", pc |-> "rd", data |-> {},
                         ret |-> 0, enable |-> 0]
                /\ dev' = [ptr |-> "block", kern |-> kern, base |-> KernAddr,
                           sign |-> "uninit", q_info |-> "chan"]
                /\ heap' = LiveHeap
                /\ QueueEnter("dev", "read", REG_SIZE, KernAddr + CtrlReg(kern), {})

\* a caller outside the model's callers creates the handle
DevInit ==
    /\ d.pc = "idle"
    /\ qpc = "idle"
    /\ api.fn = "none"
    /\ heap.block = "none"
    /\ DevInitEnter(dev.kern)
    /\ UNCHANGED <<regs, api, hist, mem, rt, th>>

\* the probe read is back: on success the tag is set and the pointer
\* returned; on failure ptdr_dev_destroy is called on the block whose tag was
\* never written (it frees the block only if the garbage equals the tag) and
\* NULL is returned
DevInitDone ==
    /\ d.pc = "rd"
    /\ d.fn = "init"
    /\ qpc = "ret"
    /\ q.caller = "dev"
    /\ LET failed == RegRead(d.kern, q.ret) IN
       /\ dlog' = Append(dlog, [op |-> "R", addr |-> q.addr, failed |-> failed,
                                val |-> IF failed = 0 THEN q.data ELSE {}])
       /\ IF failed = 0
          THEN /\ dev' = [dev EXCEPT !.sign = "magic"]
               /\ heap' = heap
               /\ d' = [d EXCEPT !.pc = "ret", !.ret = 1]
          ELSE /\ \E garbage \in {"magic", "other"} :
                     heap' = IF CHECK_DEV_PTR(dev.ptr, dev.q_info, garbage) # 0
                             THEN heap
                             ELSE [block |-> "freed", chan |-> "closed"]
               /\ dev' = NullDev(d.kern)
               /\ d' = [d EXCEPT !.pc = "ret", !.ret = 0]
    /\ QueueIdle
    /\ UNCHANGED <<regs, api, hist, mem, rt, th>>

\* ptdr_dev_destroy up to the clearing of the tag
DevDestroy ==
    /\ d.pc = "idle"
    /\ qpc = "idle"
    /\ api.fn = "none"
    /\ \E f \in Fields(dev, heap) :
          IF CHECK_DEV_PTR(dev.ptr, f.q_info, f.sign) # 0
          THEN /\ DevInvalid("destroy")
               /\ dev' = dev
          ELSE /\ d' = [kern |-> dev.kern, fn |-> "destroy", pc |-> "qd",
                        data |-> {}, ret |-> 0, enable |-> 0]
               /\ dev' = [dev EXCEPT !.sign = "cleared"]
               /\ UNCHANGED qvars
    /\ dlog' = <<>>
    /\ UNCHANGED <<regs, heap, api, hist, mem, rt, th>>

\* queue_destroy(q_info); free(ptdr); return 0
DevDestroyDone ==
    /\ d.pc = "qd"
    /\ heap' = [block |-> "freed", chan |-> "closed"]
    /\ dlog' = Append(dlog, Teardown)
    /\ d' = [d EXCEPT !.pc = "ret", !.ret = 0]
    /\ UNCHANGED <<qvars, regs, dev, api, hist, mem, rt, th>>

----------------------------------------------------------------------------
(* Callers of the device operations that keep what they get back *)

\* a read of the log failed in the transport
ReadError(log) == \E i \in 1..Len(log) : log[i].op = "R" /\ log[i].failed # 0

\* what a caller has of a completed operation: where it called it from, its
\* result, how many register writes it issued, whether a register read of it
\* failed, and the auto_restart bit of the register file when it returned
Entry(at, fn, ret, log, rf) ==
    [at |-> at, fn |-> fn, ret |-> ret, nw |-> Cardinality(Writes(log)),
     rerr |-> Bool(ReadError(log)), ar |-> Bool(7 \in rf[PTDR_CTRL_ADDR_CTRL])]

\* the caller takes the result of the operation that has returned
TakeResult ==
    /\ hist' = Append(hist, Entry(api.pc, d.fn, d.ret, dlog, regs))
    /\ d' = IdleDev
    /\ dlog' = <<>>

\* a test on a register file: it creates the handle, then calls operations
\* in any order
MockFns == {"isready", "start", "continue"}

TestApi == [NoApi EXCEPT !.fn = "test"]

TestInit ==
    /\ api.fn = "test"
    /\ d.pc = "idle"
    /\ qpc = "idle"
    /\ hist = <<>>
    /\ heap.block = "none"
    /\ DevInitEnter(dev.kern)
    /\ UNCHANGED <<regs, api, hist, mem, rt, th>>

TestCall ==
    /\ api.fn = "test"
    /\ d.pc = "idle"
    /\ qpc = "idle"
    /\ hist # <<>>
    /\ Len(hist) <= MaxOps
    /\ \E fn \in MockFns : DevEnter(fn)
    /\ UNCHANGED <<regs, dev, heap, api, hist, mem, rt, th>>

TestStep ==
    /\ api.fn = "test"
    /\ d.pc = "ret"
    /\ TakeResult
    /\ UNCHANGED <<qvars, regs, dev, heap, api, mem, rt, th>>

----------------------------------------------------------------------------
(* ptdr_run_kernel (ptdr_api.c): wait until ready, start, acknowledge a done *)
(* left from the run before, wait until done.  Each operator takes the       *)
(* result r of the device operation that has returned and gives the next     *)
(* position, the new count, and the operation to call or the value to        *)
(* return.                                                                   *)

Go(pc, count, call) == [pc |-> pc, count |-> count, ret |-> 0, call |-> call]
Out(ret) == [pc |-> "ret", count |-> 0, ret |-> ret, call |-> "none"]

\* while ((ptdr_isready() == 0) && (--count != 0)); if (count == 0)
\* ERR_CHECK(-EAGAIN); then ptdr_start.  With timeout 0 there is no count.
RunWaitReady_postdecrement(timeout, count, r) ==
    IF r # 0 THEN Go("start", 0, "start")
    ELSE IF timeout = 0 THEN Go("waitready", 0, "isready")
    ELSE IF count # 0 THEN Go("waitready", count - 1, "isready")
    ELSE Out(-EAGAIN)

RunWaitReady_starts(timeout, count, r) ==
    IF r # 0 THEN Go("start", 0, "start")
    ELSE IF timeout = 0 THEN Go("waitready", 0, "isready")
    ELSE IF count - 1 # 0 THEN Go("waitready", count - 1, "isready")
    ELSE Go("start", 0, "start")

RunWaitReady(timeout, count, r) ==
    IF r # 0 THEN Go("start", 0, "start")
    ELSE IF timeout = 0 THEN Go("waitready", 0, "isready")
    ELSE IF count - 1 # 0 THEN Go("waitready", count - 1, "isready")
    ELSE Out(-EAGAIN)

\* ret = ptdr_start(); ERR_CHECK(ret); if (ptdr_isdone()) ...
RunAfterStart(r) ==
    IF r < 0 THEN Out(r) ELSE Go("isdone", 0, "isdone")

\* entry of the second wait: with timeout 0 it polls ptdr_isready, otherwise
\* ptdr_isdone || ptdr_isidle with count = timeout_us
RunWaitDoneEnter(timeout) ==
    IF timeout = 0 THEN Go("wd_ready", 0, "isready")
    ELSE Go("wd_done", timeout, "isdone")

\* if (ptdr_isdone()) { ret = ptdr_continue(); ERR_CHECK(ret); }
RunAfterIsDone(timeout, r) ==
    IF r # 0 THEN Go("continue", 0, "continue") ELSE RunWaitDoneEnter(timeout)

RunAfterContinue(timeout, r) ==
    IF r < 0 THEN Out(r) ELSE RunWaitDoneEnter(timeout)

RunWaitDoneReady_whileready(r) ==
    IF r # 0 THEN Go("wd_ready", 0, "isready") ELSE Out(0)

\* timeout 0: while (ptdr_isready() == 0); return 0
RunWaitDoneReady(r) ==
    IF r = 0 THEN Go("wd_ready", 0, "isready") ELSE Out(0)

\* while (!(ptdr_isdone() || ptdr_isidle()) && (--count != 0));
\* if (count == 0) ERR_CHECK(-EAGAIN); return 0
RunWaitDoneDone(count, r) ==
    IF r # 0 THEN Out(0) ELSE Go("wd_idle", count, "isidle")

RunWaitDoneIdle(count, r) ==
    IF r # 0 THEN Out(0)
    ELSE IF count - 1 # 0 THEN Go("wd_done", count - 1, "isdone")
    ELSE Out(-EAGAIN)

ptdr_run_kernel(pc, timeout, count, r) ==
    CASE pc = "waitready" -> RunWaitReady(timeout, count, r)
      [] pc = "start" -> RunAfterStart(r)
      [] pc = "isdone" -> RunAfterIsDone(timeout, r)
      [] pc = "continue" -> RunAfterContinue(timeout, r)
      [] pc = "wd_ready" -> RunWaitDoneReady(r)
      [] pc = "wd_done" -> RunWaitDoneDone(count, r)
      [] pc = "wd_idle" -> RunWaitDoneIdle(count, r)

\* timeout_us values of the callers
Timeouts == 0..MaxTimeout

\* the polls at the end of the history that came from the same place
RECURSIVE TrailingPolls(_, _)
TrailingPolls(h, at) ==
    IF h = <<>> \/ h[Len(h)].at # at THEN 0
    ELSE 1 + TrailingPolls(SubSeq(h, 1, Len(h) - 1), at)

\* entry of ptdr_run_kernel on a valid handle: the first poll of ptdr_isready
RunCall ==
    /\ api.fn = "none"
    /\ d.pc = "idle"
    /\ qpc = "idle"
    /\ \E t \in Timeouts :
          api' = [NoApi EXCEPT !.fn = "run_kernel", !.pc = "waitready",
                               !.timeout = t, !.count = t]
    /\ DevEnter("isready")
    /\ hist' = <<>>
    /\ UNCHANGED <<regs, dev, heap, mem, rt, th>>

\* a device operation is back: the next one is called, or the function returns
\* (a wait with timeout 0 is followed for MaxPolls polls)
RunStep ==
    /\ api.fn = "run_kernel"
    /\ api.pc # "ret"
    /\ d.pc = "ret"
    /\ LET n == ptdr_run_kernel(api.pc, api.timeout, api.count, d.ret) IN
       /\ (api.timeout = 0 /\ n.pc = api.pc)
              => TrailingPolls(hist, api.pc) + 1 < MaxPolls
       /\ hist' = Append(hist, Entry(api.pc, d.fn, d.ret, dlog, regs))
       /\ api' = [api EXCEPT !.pc = n.pc, !.count = n.count, !.ret = n.ret]
       /\ IF n.call = "none"
          THEN /\ d' = IdleDev
               /\ dlog' = <<>>
               /\ UNCHANGED qvars
          ELSE DevEnter(n.call)
    /\ UNCHANGED <<regs, dev, heap, mem, rt, th>>

\* the caller of ptdr_run_kernel has the result
RunReturn ==
    /\ api.fn = "run_kernel"
    /\ api.pc = "ret"
    /\ api' = NoApi
    /\ hist' = <<>>
    /\ UNCHANGED <<qvars, regs, dvars, heap, mem, rt, th>>

----------------------------------------------------------------------------
(* ptdr_dev_conf (ptdr_dev.c): the fields go to device memory at base + ptr  *)
(* and their offsets ptr into the offset registers, the base register last.  *)
(* Sizes and ptr are counted in 8-byte words.                                *)

Mem(field, size) == [kind |-> "mem", field |-> field, fn |-> "queue_write",
                     size |-> size, reg |-> 0]
Reg(field, fn, reg) == [kind |-> "reg", field |-> field, fn |-> fn,
                        size |-> 0, reg |-> reg]

\* the writes of ptdr_dev_conf in program order
ptdr_dev_conf_registerfirst(samples) ==
    << Mem("dur_vc", Words(VEC_CONV_SIZE)),
       Mem("duration_v", samples),
       Reg("duration_v", "set_durations", PTDR_CTRL_ADDR_DUR),
       Reg("route", "set_route", PTDR_CTRL_ADDR_ROUTE),
       Mem("route", Words(ROUTE_SIZE)),
       Mem("start_pos", Words(ROUTEPOS_SIZE)),
       Reg("start_pos", "set_position", PTDR_CTRL_ADDR_POS),
       Mem("departure_time", Words(U64_SIZE)),
       Reg("departure_time", "set_departure", PTDR_CTRL_ADDR_DEP),
       Mem("seed", Words(U64_SIZE)),
       Reg("seed", "set_seed", PTDR_CTRL_ADDR_SEED),
       Reg("base", "set_base", PTDR_CTRL_ADDR_BASE) >>

ptdr_dev_conf(samples) ==
    << Mem("dur_vc", Words(VEC_CONV_SIZE)),
       Mem("duration_v", samples),
       Reg("duration_v", "set_durations", PTDR_CTRL_ADDR_DUR),
       Mem("route", Words(ROUTE_SIZE)),
       Reg("route", "set_route", PTDR_CTRL_ADDR_ROUTE),
       Mem("start_pos", Words(ROUTEPOS_SIZE)),
       Reg("start_pos", "set_position", PTDR_CTRL_ADDR_POS),
       Mem("departure_time", Words(U64_SIZE)),
       Reg("departure_time", "set_departure", PTDR_CTRL_ADDR_DEP),
       Mem("seed", Words(U64_SIZE)),
       Reg("seed", "set_seed", PTDR_CTRL_ADDR_SEED),
       Reg("base", "set_base", PTDR_CTRL_ADDR_BASE) >>

\* ptr when step i is reached: the sizes of the fields written before it
RECURSIVE PtrAt(_, _)
PtrAt(steps, i) ==
    IF i <= 1 THEN 0 ELSE PtrAt(steps, i - 1) + steps[i - 1].size

\* the bits of the byte count of w words (w << 3), a 64-bit value
WordBits(w) == {b + 3 : b \in BitsOf(w)}

\* the value a setter takes: 0 for the durations (they start at base), the
\* 64-bit base for ptdr_set_base, and for the others ptr of the field just
\* written, passed as uint32_t
SetterValue(steps, i, base) ==
    IF steps[i].fn = "set_durations" THEN {}
    ELSE IF steps[i].fn = "set_base" THEN BitsOf(base)
    ELSE Uint32(WordBits(PtrAt(steps, i - 1)))

\* what the buffer of a field holds: the header {samples, 0, samples}, the
\* durations, a route of no segment ({frequency 0, {max, 0, size 0}, ...}),
\* and zeroes for position, departure time and seed
Payload(field, samples, dur) ==
    CASE field = "dur_vc" -> <<samples, 0, samples>>
      [] field = "duration_v" -> dur
      [] field = "route" -> <<0, MAX_SIZE_SEGMENTS, 0, 0>>
      [] OTHER -> <<>>

\* ptdr_data_size, in words
ptdr_data_size(samples) ==
    Words(VEC_CONV_SIZE) + samples + Words(ROUTE_SIZE) + Words(ROUTEPOS_SIZE)
        + Words(U64_SIZE) + Words(U64_SIZE)

\* if (ptdr_data_size > (end - base)) return -ENOMEM; end - base is
\* avail.words words and avail.rem bytes
CapacityCheck_atleast(samples, avail) ==
    IF ptdr_data_size(samples) >= avail.words THEN -ENOMEM ELSE 0

CapacityCheck(samples, avail) ==
    IF ptdr_data_size(samples) > avail.words THEN -ENOMEM ELSE 0

\* what ptdr_read_route_from_file may return
RouteResults == {0, -ENOENT, -EINVAL, -EIO}

\* the durations the caller passes: rising or falling from samples
Durations(samples) ==
    {[i \in 1..samples |-> i], [i \in 1..samples |-> samples + 1 - i]}

\* the windows end - base the caller passes: a byte short of the data, just
\* the data
Windows(samples) ==
    {[words |-> ptdr_data_size(samples) - 1, rem |-> U64_SIZE - 1],
     [words |-> ptdr_data_size(samples), rem |-> 0]}

\* what ptdr_dev_conf has of a completed write: as Entry (the result of a
\* memory transfer in words when it is not negative), and where it went (the
\* words from base of a memory transfer, the offset of a register) and the
\* value passed to a setter
ConfEntry(field, fn, ret, log, rf, addr, val) ==
    Entry(field, fn, ret, log, rf) @@ [addr |-> addr, val |-> val]

\* a result of queue_read/queue_write in words
InWords(qret) == IF qret < 0 THEN qret ELSE Words(qret)

\* step i of the program is begun: queue_write to memory, or a setter (its
\* check of the handle, then its register write); past the last step the
\* function returns 0
ConfIssue(steps, i) ==
    IF i > Len(steps)
    THEN /\ api' = [api EXCEPT !.pc = "ret", !.ret = 0, !.count = i]
         /\ d' = IdleDev
         /\ QueueIdle
    ELSE /\ api' = [api EXCEPT !.pc = "step", !.count = i]
         /\ IF steps[i].kind = "mem"
            THEN /\ d' = IdleDev
                 /\ QueueEnterMem("conf", "write", U64_SIZE * steps[i].size,
                                  MEM_BASE_ADDR + U64_SIZE * PtrAt(steps, i),
                                  Payload(steps[i].field, api.samples, api.dur))
            ELSE LET v == SetterValue(steps, i, MEM_BASE_ADDR) IN
                 IF CHECK_DEV_PTR(dev.ptr, dev.q_info, dev.sign) # 0
                 THEN DevInvalid(steps[i].fn)
                 ELSE /\ d' = [kern |-> dev.kern, fn |-> steps[i].fn, pc |-> "wr",
                               data |-> v, ret |-> 0, enable |-> 0]
                      /\ QueueEnter("dev", "write", REG_SIZE,
                                    dev.base + steps[i].reg, Uint32(v))

\* the function returns an error
ConfFail(ret) ==
    /\ api' = [api EXCEPT !.pc = "ret", !.ret = ret]
    /\ d' = IdleDev
    /\ QueueIdle

\* entry of ptdr_dev_conf, up to the first write: the check of the handle,
\* the capacity check, the route file
ConfCall ==
    /\ api.fn = "none"
    /\ api.calls < MaxCalls
    /\ d.pc = "idle"
    /\ qpc = "idle"
    /\ \E samples \in 0..MaxSamples :
       \E dur \in Durations(samples), avail \in Windows(samples) :
          LET a == [api EXCEPT !.fn = "dev_conf", !.samples = samples,
                               !.dur = dur, !.avail = avail]
          IN
          IF CHECK_DEV_PTR(dev.ptr, dev.q_info, dev.sign) # 0
          THEN /\ api' = [a EXCEPT !.pc = "ret", !.ret = -EINVAL]
               /\ UNCHANGED <<qvars, d>>
          ELSE IF CapacityCheck(samples, avail) # 0
          THEN /\ api' = [a EXCEPT !.pc = "ret", !.ret = CapacityCheck(samples, avail)]
               /\ UNCHANGED <<qvars, d>>
          ELSE \E r \in RouteResults :
                IF r # 0
                THEN /\ api' = [a EXCEPT !.pc = "ret", !.ret = r, !.route = "read"]
                     /\ UNCHANGED <<qvars, d>>
                ELSE /\ api' = [a EXCEPT !.pc = "step", !.count = 1, !.route = "read"]
                     /\ d' = IdleDev
                     /\ QueueEnterMem("conf", "write",
                                      U64_SIZE * ptdr_dev_conf(samples)[1].size,
                                      MEM_BASE_ADDR, Payload("dur_vc", samples, dur))
    /\ hist' = <<>>
    /\ dlog' = <<>>
    /\ UNCHANGED <<regs, dev, heap, mem, rt, th>>

\* a queue_write to memory is back: != size gives -EIO, else the next step
ConfMemDone ==
    /\ api.fn = "dev_conf"
    /\ api.pc = "step"
    /\ qpc = "ret"
    /\ q.caller = "conf"
    /\ LET steps == ptdr_dev_conf(api.samples) IN
       /\ hist' = Append(hist, ConfEntry(steps[api.count].field, "queue_write",
                                         InWords(q.ret), <<>>, regs, Words(q.addr - MEM_BASE_ADDR), {}))
       /\ IF q.ret # U64_SIZE * steps[api.count].size
          THEN ConfFail(-EIO)
          ELSE ConfIssue(steps, api.count + 1)
    /\ dlog' = <<>>
    /\ UNCHANGED <<regs, dev, heap, mem, rt, th>>

\* a setter is back: != 0 is returned, else the next step
ConfRegDone_ignoresfailure ==
    /\ api.fn = "dev_conf"
    /\ api.pc = "step"
    /\ d.pc = "ret"
    /\ LET steps == ptdr_dev_conf(api.samples) IN
       /\ hist' = Append(hist, ConfEntry(steps[api.count].field, d.fn, d.ret, dlog,
                                         regs, steps[api.count].reg, d.data))
       /\ ConfIssue(steps, api.count + 1)
    /\ dlog' = <<>>
    /\ UNCHANGED <<regs, dev, heap, mem, rt, th>>

ConfRegDone ==
    /\ api.fn = "dev_conf"
    /\ api.pc = "step"
    /\ d.pc = "ret"
    /\ LET steps == ptdr_dev_conf(api.samples) IN
       /\ hist' = Append(hist, ConfEntry(steps[api.count].field, d.fn, d.ret, dlog,
                                         regs, steps[api.count].reg, d.data))
       /\ IF d.ret # 0
          THEN ConfFail(d.ret)
          ELSE ConfIssue(steps, api.count + 1)
    /\ dlog' = <<>>
    /\ UNCHANGED <<regs, dev, heap, mem, rt, th>>

\* the caller of ptdr_dev_conf has the result
ConfReturn ==
    /\ api.fn = "dev_conf"
    /\ api.pc = "ret"
    /\ api' = [NoApi EXCEPT !.calls = api.calls + 1,
                            !.last = IF api.ret # 0
                                     THEN [NoResult EXCEPT !.fn = api.fn, !.ret = api.ret]
                                     ELSE [fn |-> api.fn, ret |-> api.ret,
                                           samples |-> api.samples, dur |-> api.dur]]
    /\ hist' = <<>>
    /\ UNCHANGED <<qvars, regs, dvars, heap, mem, rt, th>>

\* the sample counts of ptdr_dev_conf taken as one step: small ones, and
\* those whose durations end just below, at and above 4 GiB from base
SampleCounts == (0..MaxSamples) \cup {2 ^ 29 - 4, 2 ^ 29 - 3, 2 ^ 29}

\* end - base when one function owns the memory: MEM_END_ADDR (8 GiB, 2^30
\* words) - MEM_BASE_ADDR
WholeMemory == [words |-> 2 ^ 30 - Words(MEM_BASE_ADDR), rem |-> 0]

\* ptdr_dev_conf with each queue_write and each setter taken as one step that
\* succeeds or fails as a whole: the steps before step `fail` succeed, step
\* `fail` fails (none if fail is past the last step)
ConfAtOnce ==
    /\ api.fn = "none"
    /\ api.calls < MaxCalls
    /\ d.pc = "idle"
    /\ qpc = "idle"
    /\ \E samples \in SampleCounts : \E avail \in Windows(samples) \cup {WholeMemory} :
          LET steps == ptdr_dev_conf(samples)
              a == [api EXCEPT !.fn = "dev_conf", !.pc = "ret", !.samples = samples,
                               !.avail = avail]
              ptr == [i \in 1..Len(steps) |-> PtrAt(steps, i)]
              values == [i \in 1..Len(steps) |->
                            IF steps[i].kind = "reg"
                            THEN SetterValue(steps, i, MEM_BASE_ADDR) ELSE {}]
              value(i) == values[i]
              log(i, fail) ==
                  IF steps[i].kind = "mem" THEN <<>>
                  ELSE [k \in 1..(IF steps[i].fn = "set_base" /\ i # fail
                                  THEN 2 ELSE 1) |->
                           [op |-> "W", addr |-> dev.base + steps[i].reg,
                            failed |-> Bool(i = fail), val |-> Uint32(value(i))]]
              ret(i, fail) == IF i = fail THEN -EIO
                              ELSE IF steps[i].kind = "mem" THEN steps[i].size
                              ELSE 0
              written(w, fail) == {i \in 1..(fail - 1) :
                                     /\ steps[i].kind = "mem"
                                     /\ ptr[i] <= w
                                     /\ w < ptr[i] + steps[i].size}
              word(i, w, dur) == LET buf == Payload(steps[i].field, samples, dur)
                                     k == w - ptr[i] + 1
                                 IN IF k <= Len(buf) THEN buf[k] ELSE 0
              set(o, fail) == {i \in 1..(fail - 1) :
                                 steps[i].kind = "reg" /\ steps[i].reg = o}
          IN
          IF CHECK_DEV_PTR(dev.ptr, dev.q_info, dev.sign) # 0
          THEN /\ api' = [a EXCEPT !.ret = -EINVAL]
               /\ UNCHANGED <<regs, mem, hist>>
          ELSE IF CapacityCheck(samples, avail) # 0
          THEN /\ api' = [a EXCEPT !.ret = CapacityCheck(samples, avail)]
               /\ UNCHANGED <<regs, mem, hist>>
          ELSE
            \E r \in RouteResults :
              IF r # 0
              THEN /\ api' = [a EXCEPT !.ret = r, !.route = "read"]
                   /\ UNCHANGED <<regs, mem, hist>>
              ELSE
                \E fail \in 1..(Len(steps) + 1) :
                \E dur \in Durations(IF samples > MaxSamples THEN MaxSamples
                                    ELSE samples) :
                   /\ api' = [a EXCEPT !.ret = IF fail > Len(steps) THEN 0 ELSE -EIO,
                                       !.route = "read", !.count = fail, !.dur = dur]
                   /\ hist' = [i \in 1..(IF fail > Len(steps) THEN Len(steps) ELSE fail) |->
                                 ConfEntry(steps[i].field, steps[i].fn, ret(i, fail),
                                           log(i, fail), regs,
                                           IF steps[i].kind = "mem" THEN ptr[i]
                                           ELSE steps[i].reg,
                                           IF steps[i].kind = "mem" THEN {} ELSE value(i))]
                   /\ regs' = [o \in DOMAIN regs |->
                                 IF set(o, fail) # {}
                                 THEN Uint32(value(CHOOSE i \in set(o, fail) : TRUE))
                                 ELSE IF o = PTDR_CTRL_ADDR_BASE + REG_SIZE
                                         /\ set(PTDR_CTRL_ADDR_BASE, fail) # {}
                                 THEN Uint32(Shr(BitsOf(MEM_BASE_ADDR), 32))
                                 ELSE regs[o]]
                   /\ mem' = [w \in MemWindow |->
                                IF written(w, fail) = {} THEN mem[w]
                                ELSE word(CHOOSE i \in written(w, fail) :
                                             \A j \in written(w, fail) : j <= i, w, dur)]
    /\ UNCHANGED <<qvars, dvars, heap, rt, th>>

----------------------------------------------------------------------------
(* ptdr_dev_get_durv (ptdr_dev.c): the header is read and checked, then the  *)
(* durations are read into the caller's buffer.                              *)

\* entry, up to the read of the header into dur_vc = {samples, 0, samples};
\* the caller's buffer holds zeroes
GetDurvCall ==
    /\ api.fn = "none"
    /\ api.calls < MaxCalls
    /\ d.pc = "idle"
    /\ qpc = "idle"
    /\ \E samples \in 0..MaxSamples :
          LET a == [api EXCEPT !.fn = "dev_get_durv", !.samples = samples,
                               !.buf = [i \in 1..samples |-> 0]]
          IN
          IF CHECK_DEV_PTR(dev.ptr, dev.q_info, dev.sign) # 0
          THEN /\ api' = [a EXCEPT !.pc = "ret", !.ret = -EINVAL]
               /\ UNCHANGED qvars
          ELSE /\ api' = [a EXCEPT !.pc = "header"]
               /\ QueueEnterMem("durv", "read", VEC_CONV_SIZE, MEM_BASE_ADDR,
                                <<samples, 0, samples>>)
    /\ hist' = <<>>
    /\ UNCHANGED <<regs, dvars, heap, mem, rt, th>>

\* what follows the read of the header: -EIO, -EINVAL, or 0 for the read of
\* the durations (dur_vc.size is the third word of the header)
ptdr_dev_get_durv_nocheck(qret, dur_vc, samples) ==
    IF qret # VEC_CONV_SIZE THEN -EIO
    ELSE 0

ptdr_dev_get_durv(qret, dur_vc, samples) ==
    IF qret # VEC_CONV_SIZE THEN -EIO
    ELSE IF dur_vc[3] # samples THEN -EINVAL
    ELSE 0

\* a queue_read is back: the header's, or the durations'
GetDurvReadDone ==
    /\ api.fn = "dev_get_durv"
    /\ api.pc \in {"header", "data"}
    /\ qpc = "ret"
    /\ q.caller = "durv"
    /\ hist' = Append(hist, ConfEntry(api.pc, "queue_read", InWords(q.ret), <<>>, regs,
                                      Words(q.addr - MEM_BASE_ADDR), {}))
    /\ IF api.pc = "header"
       THEN LET ret == ptdr_dev_get_durv(q.ret, q.words, api.samples) IN
            IF ret # 0
            THEN /\ api' = [api EXCEPT !.pc = "ret", !.ret = ret]
                 /\ QueueIdle
            ELSE /\ api' = [api EXCEPT !.pc = "data"]
                 /\ QueueEnterMem("durv", "read", U64_SIZE * api.samples,
                                  MEM_BASE_ADDR + VEC_CONV_SIZE, api.buf)
       ELSE /\ api' = [api EXCEPT !.pc = "ret", !.buf = q.words,
                                  !.ret = IF q.ret # U64_SIZE * api.samples
                                          THEN -EIO ELSE 0]
            /\ QueueIdle
    /\ UNCHANGED <<regs, dvars, heap, mem, rt, th>>

\* the caller of ptdr_dev_get_durv has the result
GetDurvReturn ==
    /\ api.fn = "dev_get_durv"
    /\ api.pc = "ret"
    /\ api' = [NoApi EXCEPT !.calls = api.calls + 1,
                            !.last = IF api.ret # 0
                                     THEN [NoResult EXCEPT !.fn = api.fn, !.ret = api.ret]
                                     ELSE [fn |-> api.fn, ret |-> api.ret,
                                           samples |-> api.samples, dur |-> api.buf]]
    /\ hist' = <<>>
    /\ UNCHANGED <<qvars, regs, dvars, heap, mem, rt, th>>

----------------------------------------------------------------------------
(* The accelerator: ap_ctrl_hs status bits change on the device's side *)

CtrlBits == {0, 1, 2, 3, 4, 7, 31}

\* ap_done and ap_idle are set and cleared by the core
HwStatus ==
    /\ \E b \in {1, 2} :
          regs' = [regs EXCEPT ![PTDR_CTRL_ADDR_CTRL] =
                      IF b \in @ THEN @ \ {b} ELSE @ \cup {b}]
    /\ UNCHANGED <<qvars, dvars, heap, api, hist, mem, rt, th>>

\* ap_start clears on handshake, ap_continue clears by itself
HwSelfClear ==
    /\ \E b \in {0, 4} :
          /\ b \in regs[PTDR_CTRL_ADDR_CTRL]
          /\ regs' = [regs EXCEPT ![PTDR_CTRL_ADDR_CTRL] = @ \ {b}]
    /\ UNCHANGED <<qvars, dvars, heap, api, hist, mem, rt, th>>

----------------------------------------------------------------------------
(* Specification of the transport alone: callers of queue_read/queue_write *)

InitQueue ==
    /\ qpc = "idle"
    /\ q = NoCall
    /\ fdpos = 0
    /\ qtrace = <<>>
    /\ qerr = "none"
    /\ drift = 0
    /\ regs = [r \in RegOffsets |-> {}]
    /\ dev = ValidDev("ptdr")
    /\ d = IdleDev
    /\ dlog = <<>>
    /\ heap = LiveHeap
    /\ api = NoApi
    /\ hist = <<>>
    /\ mem = ZeroMem
    /\ rt = NoRoute
    /\ th = NoThreads

NextQueue ==
    \/ QueueCall
    \/ QueueSeek
    \/ QueueNoSeek
    \/ QueueXfer
    \/ QueueReturn

SpecQueue == InitQueue /\ [][NextQueue]_vars

----------------------------------------------------------------------------
(* Specification of the control protocol: one handle, any register contents. *)
(* The register block is at a non-zero address, so every register access    *)
(* positions the channel first and QueueNoSeek is never taken here.         *)

InitCtrl ==
    /\ qpc = "idle"
    /\ q = NoCall
    /\ fdpos = 0
    /\ qtrace = <<>>
    /\ qerr = "none"
    /\ drift = 0
    /\ regs \in [RegOffsets -> SUBSET CtrlBits]
    /\ regs[PTDR_CTRL_ADDR_GIE] = {}
    /\ dev \in {ValidDev(k) : k \in Kerns}
    /\ d = IdleDev
    /\ dlog = <<>>
    /\ heap = LiveHeap
    /\ api = NoApi
    /\ hist = <<>>
    /\ mem = ZeroMem
    /\ rt = NoRoute
    /\ th = NoThreads

NextCtrl ==
    \/ DevCall
    \/ DevCallAutorestart
    \/ QueueSeek
    \/ QueueXfer
    \/ DevReadDone
    \/ DevWriteDone
    \/ DevReturn
    \/ HwStatus
    \/ HwSelfClear

SpecCtrl == InitCtrl /\ [][NextCtrl]_vars

\* The operations of the two kernels side by side: a handle of either
\* kernel on the same register contents, every control operation and the
\* destroy, the register file changed by the host's writes alone.
InitPair ==
    /\ qpc = "idle"
    /\ q = NoCall
    /\ fdpos = 0
    /\ qtrace = <<>>
    /\ qerr = "none"
    /\ drift = 0
    /\ regs \in [RegOffsets -> SUBSET {0, 1, 2, 3, 7}]
    /\ regs[PTDR_CTRL_ADDR_GIE] = {}
    /\ dev \in {ValidDev(k) : k \in Kerns}
    /\ d = IdleDev
    /\ dlog = <<>>
    /\ heap = LiveHeap
    /\ api = NoApi
    /\ hist = <<>>
    /\ mem = ZeroMem
    /\ rt = NoRoute
    /\ th = NoThreads

NextPair ==
    \/ DevCall
    \/ DevCallAutorestart
    \/ DevCallInterruptglobal
    \/ DevDestroy
    \/ DevDestroyDone
    \/ QueueSeek
    \/ QueueXfer
    \/ DevReadDone
    \/ DevWriteDone
    \/ DevReturn

SpecPair == InitPair /\ [][NextPair]_vars

----------------------------------------------------------------------------
(* Specification of a test on a simulated accelerator: the register file is *)
(* changed by the host's writes alone (ap_start is never cleared by the     *)
(* device), the test creates a handle and calls is_ready, start, continue.  *)

InitMock ==
    /\ qpc = "idle"
    /\ q = NoCall
    /\ fdpos = 0
    /\ qtrace = <<>>
    /\ qerr = "none"
    /\ drift = 0
    /\ regs \in [RegOffsets -> SUBSET {0, 1, 7}]
    /\ regs[PTDR_CTRL_ADDR_GIE] = {}
    /\ dev = NullDev("ptdr")
    /\ d = IdleDev
    /\ dlog = <<>>
    /\ heap = NoHeap
    /\ api = TestApi
    /\ hist = <<>>
    /\ mem = ZeroMem
    /\ rt = NoRoute
    /\ th = NoThreads

NextMock ==
    \/ TestInit
    \/ TestCall
    \/ QueueSeek
    \/ QueueXfer
    \/ DevInitDone
    \/ DevReadDone
    \/ DevWriteDone
    \/ TestStep

SpecMock == InitMock /\ [][NextMock]_vars

----------------------------------------------------------------------------
(* Specification of the orchestration: ptdr_run_kernel called again and      *)
(* again on one valid handle, the accelerator changing its status bits and   *)
(* the transport failing as they may.                                        *)

InitRun ==
    /\ qpc = "idle"
    /\ q = NoCall
    /\ fdpos = 0
    /\ qtrace = <<>>
    /\ qerr = "none"
    /\ drift = 0
    /\ regs \in [RegOffsets -> SUBSET {0, 1, 2, 7}]
    /\ regs[PTDR_CTRL_ADDR_GIE] = {}
    /\ dev = ValidDev("ptdr")
    /\ d = IdleDev
    /\ dlog = <<>>
    /\ heap = LiveHeap
    /\ api = NoApi
    /\ hist = <<>>
    /\ mem = ZeroMem
    /\ rt = NoRoute
    /\ th = NoThreads

NextRun ==
    \/ RunCall
    \/ QueueSeek
    \/ QueueXfer
    \/ DevReadDone
    \/ DevWriteDone
    \/ RunStep
    \/ RunReturn
    \/ HwStatus
    \/ HwSelfClear

SpecRun == InitRun /\ [][NextRun]_vars

----------------------------------------------------------------------------
(* Specification of the life of a handle: the caller holds NULL (and may     *)
(* create the handle), or a block with a wrong tag, or one without channel;  *)
(* it calls the operations and ptdr_dev_destroy in any order, and keeps its  *)
(* pointer after the destroy.                                                *)

InitHandle ==
    /\ qpc = "idle"
    /\ q = NoCall
    /\ fdpos = 0
    /\ qtrace = <<>>
    /\ qerr = "none"
    /\ drift = 0
    /\ regs = [r \in RegOffsets |-> {}]
    /\ \/ dev = NullDev("ptdr") /\ heap = NoHeap
       \/ dev = [ValidDev("ptdr") EXCEPT !.sign = "other"] /\ heap = LiveHeap
       \/ dev = [ValidDev("ptdr") EXCEPT !.q_info = "null"]
             /\ heap = [block |-> "live", chan |-> "none"]
    /\ d = IdleDev
    /\ dlog = <<>>
    /\ api = NoApi
    /\ hist = <<>>
    /\ mem = ZeroMem
    /\ rt = NoRoute
    /\ th = NoThreads

NextHandle ==
    \/ DevInit
    \/ DevInitDone
    \/ DevCall
    \/ DevCallAutorestart
    \/ DevDestroy
    \/ DevDestroyDone
    \/ QueueSeek
    \/ QueueXfer
    \/ DevReadDone
    \/ DevWriteDone
    \/ DevReturn

SpecHandle == InitHandle /\ [][NextHandle]_vars

----------------------------------------------------------------------------
(* Specification of the commit of the input: ptdr_dev_conf called again and  *)
(* again on one valid handle, with the memory of ptdr_init (base is          *)
(* MEM_BASE_ADDR) and the transport failing as it may.                       *)

InitConf ==
    /\ qpc = "idle"
    /\ q = NoCall
    /\ fdpos = 0
    /\ qtrace = <<>>
    /\ qerr = "none"
    /\ drift = 0
    /\ regs = [r \in RegOffsets \cup ArgOffsets |-> {}]
    /\ dev = ValidDev("ptdr")
    /\ d = IdleDev
    /\ dlog = <<>>
    /\ heap = LiveHeap
    /\ api = NoApi
    /\ hist = <<>>
    /\ \E n \in 0..MaxSamples : mem = [ZeroMem EXCEPT ![Words(VEC_CONV_SIZE) - 1] = n]
    /\ rt = NoRoute
    /\ th = NoThreads

NextConf ==
    \/ ConfCall
    \/ QueueSeek
    \/ QueueXfer
    \/ DevWriteDone
    \/ ConfMemDone
    \/ ConfRegDone
    \/ ConfReturn
    \/ GetDurvCall
    \/ GetDurvReadDone
    \/ GetDurvReturn

SpecConf == InitConf /\ [][NextConf]_vars

\* The layout of ptdr_dev_conf for every sample count, small and large, with
\* the transport taken a call at a time.
NextLayout ==
    \/ ConfAtOnce
    \/ ConfReturn

SpecLayout == InitConf /\ [][NextLayout]_vars

----------------------------------------------------------------------------
(* ptdr_set_base / ptdr_get_base and helm_set_in / helm_get_in: a 64-bit     *)
(* value in two registers.  The caller sets and gets in any order and keeps *)
(* what it passed and what it got.                                          *)

\* the 64-bit values the caller passes: 0, a low word only, a high word
\* only, and values with bits at the ends of both words
BaseValues == {{}, {0, 31}, {32, 63}, {0, 63}, {31, 32}, {0, 31, 32, 63}}

\* ptdr_set_base(dev, x) up to its first register write, (uint32_t) data
BaseSet ==
    /\ d.pc = "idle"
    /\ qpc = "idle"
    /\ api.fn = "none"
    /\ Len(hist) < MaxCalls
    /\ \E x \in BaseValues :
          IF CHECK_DEV_PTR(dev.ptr, dev.q_info, dev.sign) # 0
          THEN DevInvalid("set_base")
          ELSE /\ d' = [kern |-> dev.kern, fn |-> "set_base", pc |-> "wr",
                        data |-> x, ret |-> 0, enable |-> 0]
               /\ QueueEnter("dev", "write", REG_SIZE,
                             dev.base + BaseReg(dev.kern), Uint32(x))
    /\ dlog' = <<>>
    /\ UNCHANGED <<regs, dev, heap, api, hist, mem, rt, th>>

\* ptdr_get_base(dev, &data) up to its first register read
BaseGet ==
    /\ d.pc = "idle"
    /\ qpc = "idle"
    /\ api.fn = "none"
    /\ Len(hist) < MaxCalls
    /\ IF CHECK_DEV_PTR(dev.ptr, dev.q_info, dev.sign) # 0
       THEN DevInvalid("get_base")
       ELSE /\ d' = [kern |-> dev.kern, fn |-> "get_base", pc |-> "rd",
                     data |-> {}, ret |-> 0, enable |-> 0]
            /\ QueueEnter("dev", "read", REG_SIZE, dev.base + BaseReg(dev.kern), {})
    /\ dlog' = <<>>
    /\ UNCHANGED <<regs, dev, heap, api, hist, mem, rt, th>>

\* a register read of ptdr_get_base is back: data0, then data1 and *data
BaseReadDone ==
    /\ d.pc = "rd"
    /\ d.fn = "get_base"
    /\ qpc = "ret"
    /\ q.caller = "dev"
    /\ LET failed == RegRead(d.kern, q.ret) IN
       /\ dlog' = Append(dlog, [op |-> "R", addr |-> q.addr, failed |-> failed,
                                val |-> IF failed = 0 THEN q.data ELSE {}])
       /\ IF failed # 0
          THEN /\ d' = [d EXCEPT !.pc = "ret", !.ret = -EIO]
               /\ QueueIdle
          ELSE IF dlog = <<>>
          THEN /\ d' = [d EXCEPT !.data = q.data]
               /\ QueueEnter("dev", "read", REG_SIZE,
                             dev.base + BaseReg(d.kern) + REG_SIZE, {})
          ELSE /\ d' = [d EXCEPT !.pc = "ret", !.ret = 0,
                                 !.data = IF d.kern = "ptdr"
                                          THEN ptdr_get_base(d.data, q.data)
                                          ELSE helm_get_in(d.data, q.data)]
               /\ QueueIdle
    /\ UNCHANGED <<regs, dev, heap, api, hist, mem, rt, th>>

\* the caller has the result: what it called, the value it passed or got,
\* the result, and the register accesses made
BaseReturn ==
    /\ d.pc = "ret"
    /\ d.fn \in {"set_base", "get_base"}
    /\ api.fn = "none"
    /\ hist' = Append(hist, [fn |-> d.fn, ret |-> d.ret, val |-> d.data, log |-> dlog])
    /\ d' = IdleDev
    /\ dlog' = <<>>
    /\ UNCHANGED <<qvars, regs, dev, heap, api, mem, rt, th>>

InitBase ==
    /\ qpc = "idle"
    /\ q = NoCall
    /\ fdpos = 0
    /\ qtrace = <<>>
    /\ qerr = "none"
    /\ drift = 0
    /\ regs = [r \in RegOffsets \cup ArgOffsets \cup InOffsets |-> {}]
    /\ dev \in {ValidDev(k) : k \in Kerns}
    /\ d = IdleDev
    /\ dlog = <<>>
    /\ heap = LiveHeap
    /\ api = NoApi
    /\ hist = <<>>
    /\ mem = ZeroMem
    /\ rt = NoRoute
    /\ th = NoThreads

NextBase ==
    \/ BaseSet
    \/ BaseGet
    \/ QueueSeek
    \/ QueueXfer
    \/ DevWriteDone
    \/ BaseReadDone
    \/ BaseReturn

SpecBase == InitBase /\ [][NextBase]_vars

----------------------------------------------------------------------------
(* Two threads call ptdr_start, ptdr_continue and ptdr_autorestart on one    *)
(* handle with no lock: each call is its own sequence of lseek and           *)
(* read/write on the one descriptor, whose position and registers they      *)
(* share.  hist is the order of what happened on the handle: the calls, the  *)
(* register reads that succeeded, the writes issued, and the returns.       *)

RaceFns == {"start", "continue", "autorestart"}

\* thread t is at pc with these locals
ThreadAt(t, pc, data, ret) == th' = [th EXCEPT ![t].pc = pc, ![t].data = data, ![t].ret = ret]

\* what thread t did on the handle, with the descriptor at pos
Event(t, op, val, ret) == [t |-> t, op |-> op, val |-> val, ret |-> ret, pos |-> fdpos]

\* the function returns ret to thread t
ThreadExit(t, ret) ==
    /\ ThreadAt(t, "ret", th[t].data, ret)
    /\ hist' = Append(hist, Event(t, "ret", {}, ret))

\* a thread calls an operation: the check of the handle, then the register
\* read of start and continue, or the value of autorestart to write
ThreadCall ==
    \E t \in Threads, fn \in RaceFns, enable \in {0, 1} :
        /\ th[t].pc = "idle"
        /\ fn # "autorestart" => enable = 0
        /\ LET c == [th[t] EXCEPT !.fn = fn, !.enable = enable] IN
           IF CHECK_DEV_PTR(dev.ptr, dev.q_info, dev.sign) # 0
           THEN /\ th' = [th EXCEPT ![t] = [c EXCEPT !.pc = "ret", !.ret = -EINVAL]]
                /\ hist' = hist \o <<Event(t, "call", {}, 0),
                                      Event(t, "ret", {}, -EINVAL)>>
           ELSE /\ th' = [th EXCEPT ![t] =
                             IF fn = "autorestart"
                             THEN [c EXCEPT !.pc = "wseek",
                                            !.data = Autorestart(dev.kern, enable).val]
                             ELSE [c EXCEPT !.pc = "rseek"]]
                /\ hist' = Append(hist, Event(t, "call", {}, 0))
        /\ UNCHANGED <<qvars, regs, dvars, heap, api, mem, rt>>

\* lseek(fd, dev->base + CTRL, SEEK_SET) of the thread's queue_read or
\* queue_write
ThreadSeek ==
    \E t \in Threads :
        /\ th[t].pc \in {"rseek", "wseek"}
        /\ \E r \in SeekOutcomes(dev.base + CtrlReg(dev.kern)), e \in Errnos :
              /\ fdpos' = IF r >= 0 THEN r ELSE fdpos
              /\ IF SeekCheck(r, dev.base + CtrlReg(dev.kern), e) # 0
                 THEN ThreadExit(t, -EIO)
                 ELSE /\ ThreadAt(t, IF th[t].pc = "rseek" THEN "read" ELSE "write",
                               th[t].data, 0)
                      /\ hist' = hist
        /\ UNCHANGED <<qpc, q, qtrace, qerr, drift, regs, dvars, heap, api, mem, rt>>

\* read(fd, &data, REG_SIZE) at the descriptor's position, and what the
\* function does with the value
ThreadRead ==
    \E t \in Threads :
        /\ th[t].pc = "read"
        /\ \E r \in XferOutcomes(fdpos, REG_SIZE), e \in Errnos :
           \E np \in PosAfter(fdpos, r) :
              LET qret == IF XferCheck(r, REG_SIZE, e) # 0
                          THEN XferCheck(r, REG_SIZE, e)
                          ELSE TailResult(REG_SIZE, REG_SIZE)
                  failed == RegRead(dev.kern, qret)
                  data == DevRead(regs, fdpos, REG_SIZE, th[t].data)
                  dec == AfterRead(dev.kern, th[t].fn, failed, data)
              IN
              /\ fdpos' = np
              /\ IF dec.act = "return"
                 THEN /\ ThreadAt(t, "ret", th[t].data, dec.ret)
                      /\ hist' = hist \o (IF failed = 0
                                          THEN <<Event(t, "R", data, REG_SIZE)>>
                                          ELSE <<>>)
                                      \o <<Event(t, "ret", {}, dec.ret)>>
                 ELSE /\ ThreadAt(t, "wseek", dec.val, 0)
                      /\ hist' = Append(hist, Event(t, "R", data, REG_SIZE))
        /\ UNCHANGED <<qpc, q, qtrace, qerr, drift, regs, dvars, heap, api, mem, rt>>

\* write(fd, &data, REG_SIZE) at the descriptor's position; the function
\* returns
ThreadWrite ==
    \E t \in Threads :
        /\ th[t].pc = "write"
        /\ \E r \in XferOutcomes(fdpos, REG_SIZE), e \in Errnos :
           \E np \in PosAfter(fdpos, r) :
              LET qret == IF XferCheck(r, REG_SIZE, e) # 0
                          THEN XferCheck(r, REG_SIZE, e)
                          ELSE TailResult(REG_SIZE, REG_SIZE)
                  ret == WriteResult(RegWrite(dev.kern, qret))
              IN
              /\ fdpos' = np
              /\ regs' = DevWrite(regs, fdpos, REG_SIZE, th[t].data, r)
              /\ ThreadAt(t, "ret", th[t].data, ret)
              /\ hist' = hist \o <<Event(t, "W", th[t].data, r),
                                    Event(t, "ret", {}, ret)>>
        /\ UNCHANGED <<qpc, q, qtrace, qerr, drift, dvars, heap, api, mem, rt>>

\* the register file is changed by the host's writes alone; each thread
\* makes one call
InitRace ==
    /\ qpc = "idle"
    /\ q = NoCall
    /\ fdpos = 0
    /\ qtrace = <<>>
    /\ qerr = "none"
    /\ drift = 0
    /\ regs \in [RegOffsets -> SUBSET {0, 7}]
    /\ regs[PTDR_CTRL_ADDR_GIE] = {}
    /\ dev = ValidDev("ptdr")
    /\ d = IdleDev
    /\ dlog = <<>>
    /\ heap = LiveHeap
    /\ api = NoApi
    /\ hist = <<>>
    /\ mem = ZeroMem
    /\ rt = NoRoute
    /\ th = NoThreads

NextRace ==
    \/ ThreadCall
    \/ ThreadSeek
    \/ ThreadRead
    \/ ThreadWrite

SpecRace == InitRace /\ [][NextRace]_vars

----------------------------------------------------------------------------
(* ptdr_read_route_from_file (ptdr_dev.c): the route file is a frequency, a  *)
(* segment count, and for each segment an id length, the id, length, speed   *)
(* and PROFILES_NUM profiles of PROFILE_VAL_NUM values and cum_probs, all of *)
(* 8 bytes. Positions and lengths are in bytes of the stream.                *)

\* the bytes of a segment after its id: length, speed and the profiles
SegmentBody == U64_SIZE * (2 + PROFILES_NUM * 2 * PROFILE_VAL_NUM)

\* the bytes one iteration of the loop takes from a file whose ids are id long
SegmentBytes(id) == U64_SIZE + id + SegmentBody

\* fread(ptr, 1, n, file) at pos of a file of len bytes: the bytes it gets
Fread(pos, n, len) ==
    IF pos + n <= len THEN n ELSE IF pos < len THEN len - pos ELSE 0

\* fseek(file, off, SEEK_CUR) with off a long: the new position, -1 when it
\* would be before the start of the file
Fseek(pos, off) == IF pos + off < 0 THEN -1 ELSE pos + off

\* if (count > MAX_SIZE_SEGMENTS) return -EINVAL
CountCheck_atleast(count) == IF count >= MAX_SIZE_SEGMENTS THEN -EINVAL ELSE 0

CountCheck(count) == IF count > MAX_SIZE_SEGMENTS THEN -EINVAL ELSE 0

\* ptdr_route_t route = {0} of ptdr_dev_conf; segments is how many segments
\* are loaded whole, part the bytes loaded of the one after them
ZeroRoute == [frequency_seconds |-> 0, max |-> 0, z |-> 0, size |-> 0,
              segments |-> 0, part |-> 0]

\* a field of 8 bytes of which fread stored the first n: the old value, the
\* new value, or (-1) bytes of both
Stored(old, new, n) ==
    IF n = 0 \/ old = new THEN old ELSE IF n = U64_SIZE THEN new ELSE -1

\* the counts a file may announce
SegmentCounts == {0, 1, MAX_SIZE_SEGMENTS - 1, MAX_SIZE_SEGMENTS,
                  MAX_SIZE_SEGMENTS + 1, MAX_SIZE_SEGMENTS + 2}

\* the id lengths of a file: none, 8 bytes, and one with the top bit set,
\* which is a negative offset for fseek
IdLengths == {0, U64_SIZE, -(2 ^ 30)}

\* the lengths of a file of count segments: cut in or after the frequency,
\* in or after the count, in the first segment, before the last double, whole
FileLengths(count, id) ==
    {0, U64_SIZE \div 2, U64_SIZE, U64_SIZE + U64_SIZE \div 2, 2 * U64_SIZE,
     3 * U64_SIZE, 2 * U64_SIZE + count * SegmentBytes(IF id < 0 THEN 0 ELSE id)}
    \cup (IF count = 0 THEN {}
          ELSE {2 * U64_SIZE + count * SegmentBytes(IF id < 0 THEN 0 ELSE id)
                    - U64_SIZE})

\* the files ptdr_read_route_from_file may be given: none, or one with a
\* frequency (0, or another value: 1), a count, ids of one length, a length
RouteFiles ==
    {[exists |-> FALSE, freq |-> 0, count |-> 0, id |-> 0, len |-> 0]}
    \cup UNION {{[exists |-> TRUE, freq |-> f, count |-> c, id |-> i, len |-> l] :
                    f \in {0, 1}, l \in FileLengths(c, i)} :
                 c \in SegmentCounts, i \in IdLengths}

\* the function returns ret; fclose
RouteExit(r, ret) == [r EXCEPT !.pc = "ret", !.ret = ret]

\* fopen(filename, "rb")
RouteOpen ==
    /\ rt.pc = "open"
    /\ rt' = IF ~rt.file.exists THEN RouteExit(rt, -ENOENT)
             ELSE [rt EXCEPT !.pc = "frequency"]
    /\ UNCHANGED <<qvars, regs, dvars, avars, mem, th>>

\* fread(&route->frequency_seconds, 1, sizeof(double), file)
RouteFrequency ==
    /\ rt.pc = "frequency"
    /\ LET n == Fread(rt.fpos, U64_SIZE, rt.file.len)
           r == [rt EXCEPT !.fpos = @ + n,
                           !.route.frequency_seconds = Stored(@, rt.file.freq, n)]
       IN rt' = IF n # U64_SIZE THEN RouteExit(r, -EIO)
                ELSE [r EXCEPT !.pc = "count"]
    /\ UNCHANGED <<qvars, regs, dvars, avars, mem, th>>

\* fread(&count, ...), the check of count, segments_vec, and the loop
\* condition for the first segment
RouteCount ==
    /\ rt.pc = "count"
    /\ LET n == Fread(rt.fpos, U64_SIZE, rt.file.len)
           r == [rt EXCEPT !.fpos = @ + n]
           count == rt.file.count
       IN rt' = IF n # U64_SIZE THEN RouteExit(r, -EIO)
                ELSE IF CountCheck(count) # 0 THEN RouteExit(r, CountCheck(count))
                ELSE LET s == [r EXCEPT !.route.max = MAX_SIZE_SEGMENTS,
                                        !.route.z = 0,
                                        !.route.size = count,
                                        !.i = 0]
                     IN IF 0 < count THEN [s EXCEPT !.pc = "segment"]
                        ELSE RouteExit(s, 0)
    /\ UNCHANGED <<qvars, regs, dvars, avars, mem, th>>

\* one iteration of the loop: the id length, fseek over the id, then length,
\* speed and the profiles, each fread of 8 bytes; i++ and the loop condition
RouteSegment ==
    /\ rt.pc = "segment"
    /\ LET idn == Fread(rt.fpos, U64_SIZE, rt.file.len)
           at == Fseek(rt.fpos + U64_SIZE, rt.file.id)
           body == Fread(at, SegmentBody, rt.file.len)
       IN rt' = IF idn # U64_SIZE
                THEN RouteExit([rt EXCEPT !.fpos = @ + idn], -EIO)
                ELSE IF at < 0
                THEN RouteExit([rt EXCEPT !.fpos = @ + U64_SIZE], -EIO)
                ELSE IF body # SegmentBody
                THEN RouteExit([rt EXCEPT !.fpos = at + body,
                                          !.route.part = body], -EIO)
                ELSE LET s == [rt EXCEPT !.fpos = at + body,
                                         !.route.segments = @ + 1,
                                         !.i = @ + 1]
                     IN IF s.i < rt.route.size THEN s ELSE RouteExit(s, 0)
    /\ UNCHANGED <<qvars, regs, dvars, avars, mem, th>>

\* ptdr_dev_conf calls the parser on its zeroed descriptor
InitRoute ==
    /\ qpc = "idle"
    /\ q = NoCall
    /\ fdpos = 0
    /\ qtrace = <<>>
    /\ qerr = "none"
    /\ drift = 0
    /\ regs = [r \in RegOffsets \cup ArgOffsets |-> {}]
    /\ dev = ValidDev("ptdr")
    /\ d = IdleDev
    /\ dlog = <<>>
    /\ heap = LiveHeap
    /\ api = NoApi
    /\ hist = <<>>
    /\ mem = ZeroMem
    /\ rt \in {[pc |-> "open", file |-> f, fpos |-> 0, i |-> 0, ret |-> 0,
                 route |-> ZeroRoute] : f \in RouteFiles}
    /\ th = NoThreads

NextRoute ==
    \/ RouteOpen
    \/ RouteFrequency
    \/ RouteCount
    \/ RouteSegment

SpecRoute == InitRoute /\ [][NextRoute]_vars

----------------------------------------------------------------------------
(* Properties of the transport (SpecQueue) *)

\* a system call did all it was asked: lseek returned the offset, read/write
\* returned the chunk size
EntryOk(e) == e.ret = e.arg

AllOk(tr) == \A i \in 1..Len(tr) : EntryOk(tr[i])

IsXfer(e) == e.call # "lseek"

Xfers(tr) == SelectSeq(tr, IsXfer)

RECURSIVE SumArgs(_)
SumArgs(tr) == IF tr = <<>> THEN 0 ELSE Head(tr).arg + SumArgs(Tail(tr))

CeilDiv(a, b) == (a \div b) + (IF a % b = 0 THEN 0 ELSE 1)

Returned == qpc = "ret"

\* C1: queue_read/queue_write are all-or-nothing: the call returns the
\* requested size exactly when every seek and every sub-transfer did all it
\* was asked, and a negative value in every other case; it never returns a
\* non-negative value other than the requested size.
C1_AllOrNothing ==
    Returned =>
        /\ (q.ret = q.size) <=> AllOk(qtrace)
        /\ q.ret = q.size \/ q.ret < 0

\* a call of three chunks whose last transfer came back short, after two
\* complete chunks, has returned
C1_Witness ==
    /\ Returned
    /\ Len(Xfers(qtrace)) = 3
    /\ ~EntryOk(qtrace[Len(qtrace)])
    /\ qtrace[Len(qtrace)].ret > 0
    /\ q.ret < 0

\* C2: once a seek or a sub-transfer fails, the call aborts: the failed system
\* call is the last one the call issues, the call returns an error, and no
\* chunk is transferred twice.
C2_AbortOnFailure ==
    /\ \A i \in 1..Len(qtrace) :
          ~EntryOk(qtrace[i]) => i = Len(qtrace) /\ Returned /\ q.ret < 0
    /\ \A i, j \in 1..Len(qtrace) :
          (i < j /\ IsXfer(qtrace[i]) /\ IsXfer(qtrace[j]))
              => qtrace[i].done < qtrace[j].done

\* the second chunk's transfer came back short and the call has returned
C2_Witness ==
    /\ Returned
    /\ Len(Xfers(qtrace)) = 2
    /\ IsXfer(qtrace[Len(qtrace)])
    /\ qtrace[Len(qtrace)].ret >= 0
    /\ qtrace[Len(qtrace)].ret < qtrace[Len(qtrace)].arg
    /\ q.size > 2 * RW_MAX_SIZE

\* C3: a successful call of size S issues max(1, ceil(S / RW_MAX_SIZE))
\* sub-transfers, each of at most RW_MAX_SIZE bytes, all but the last of
\* exactly RW_MAX_SIZE bytes, summing to S; a zero-byte call issues one
\* zero-length sub-transfer and returns 0.
C3_ChunkCount ==
    (Returned /\ q.ret = q.size) =>
        LET X == Xfers(qtrace) IN
        /\ Len(X) = Max(1, CeilDiv(q.size, RW_MAX_SIZE))
        /\ \A i \in 1..Len(X) :
              /\ X[i].arg <= RW_MAX_SIZE
              /\ i < Len(X) => X[i].arg = RW_MAX_SIZE
        /\ SumArgs(X) = q.size
        /\ q.size = 0 => X[1].arg = 0 /\ q.ret = 0

\* a successful call whose size is not a multiple of the cap: two full chunks
\* and a last chunk of one byte
C3_Witness ==
    /\ Returned
    /\ q.ret = q.size
    /\ q.size = 2 * RW_MAX_SIZE + 1
    /\ Len(Xfers(qtrace)) = 3

\* C4: every chunk of a call with address A is transferred at device address
\* A + (bytes already transferred by that call), wherever earlier calls left
\* the channel position, for every A including 0 (stated of the chunks that
\* move at least one byte).
C4_ChunkAtAddress ==
    \A i \in 1..Len(qtrace) :
        (IsXfer(qtrace[i]) /\ qtrace[i].arg > 0)
            => qtrace[i].pos = q.addr + qtrace[i].done

SeekDiags == {"seek_failed", "seek_mismatch"}
XferDiags == {"xfer_failed", "xfer_short"}

\* the values a failed transfer returns
XferFailureReturns ==
    {XferCheck(r, REG_SIZE, e) : r \in XferOutcomes(0, REG_SIZE) \ {REG_SIZE}, e \in Errnos}

\* C5 as stated: the returned error tells a positioning failure from a
\* transfer failure, i.e. a positioning failure never returns a value that a
\* transfer failure returns.
C5_Distinguishable ==
    (Returned /\ qerr \in SeekDiags) => q.ret \notin XferFailureReturns

\* C5 as amended: both failures abort the call with a negative errno value
\* right after the failed system call; the kinds differ in the diagnostic
\* printed, not in the value returned: a seek to the wrong position and a
\* short transfer both return -EIO, a failed lseek and a failed read/write
\* both return -errno.
C5_BothAbortNegative ==
    (Returned /\ qerr # "none") =>
        LET last == qtrace[Len(qtrace)] IN
        /\ q.ret < 0
        /\ ~EntryOk(last)
        /\ qerr \in SeekDiags <=> ~IsXfer(last)
        /\ qerr \in XferDiags <=> IsXfer(last)
        /\ qerr \in {"seek_mismatch", "xfer_short"} => q.ret = -EIO
        /\ qerr \in {"seek_failed", "xfer_failed"} => -q.ret \in Errnos
        /\ ptdr_reg_read(q.ret) = 1
        /\ ptdr_reg_write(q.ret) = 1

\* a seek that landed on another position has aborted the call with -EIO
C5_Witness ==
    /\ Returned
    /\ qerr = "seek_mismatch"
    /\ q.ret = -EIO
    /\ Len(qtrace) = 3

----------------------------------------------------------------------------
(* Properties of the control protocol (SpecCtrl) *)

DevReturned(fn) == d.pc = "ret" /\ d.fn = fn

\* the operation's first register access was a read that succeeded
ReadOk == Len(dlog) >= 1 /\ dlog[1].op = "R" /\ dlog[1].failed = 0

ValueRead == dlog[1].val

CtrlAddr == dev.base + PTDR_CTRL_ADDR_CTRL

\* the step in which start() has its register read back with ap_start set
StartSeesBusy ==
    /\ d.fn = "start"
    /\ d.pc = "rd"
    /\ qpc = "ret"
    /\ q.ret = REG_SIZE
    /\ 0 \in q.data
    /\ d' # d

\* C6: start() on a control register whose bit 0 is already set returns
\* -EBUSY and issues no write: the step that sees the bit returns at once
\* with the register file unchanged and no transport call begun, and the
\* operation's accesses are the one read.
C6_BusyNoWrite ==
    /\ [][StartSeesBusy =>
             /\ d'.pc = "ret"
             /\ d'.ret = -EBUSY
             /\ regs' = regs
             /\ qpc' = "idle"
             /\ Writes(dlog') = {}]_vars
    /\ []((DevReturned("start") /\ ReadOk /\ 0 \in ValueRead) =>
             /\ d.ret = -EBUSY
             /\ Len(dlog) = 1
             /\ qpc = "idle")

\* start() has returned busy on a register that also had auto_restart set
C6_Witness ==
    /\ DevReturned("start")
    /\ ReadOk
    /\ {0, 7} \subseteq ValueRead
    /\ d.ret = -EBUSY

\* C7: when bit 0 is clear, start() performs exactly one read and one write
\* of the control register, and writes (value_read AND 0x80) OR 0x01.
C7_StartWrites ==
    (DevReturned("start") /\ ReadOk /\ 0 \notin ValueRead) =>
        /\ Len(dlog) = 2
        /\ dlog[1].addr = CtrlAddr
        /\ dlog[2].op = "W"
        /\ dlog[2].addr = CtrlAddr
        /\ dlog[2].val = (ValueRead \cap {7}) \cup {0}

\* start() succeeded on a register that had every other modelled bit set
C7_Witness ==
    /\ DevReturned("start")
    /\ d.ret = 0
    /\ ReadOk
    /\ ValueRead = CtrlBits \ {0}
    /\ dlog[2].val = {0, 7}

\* C8: continue_() writes (value_read AND 0x80) OR 0x10: auto_restart is
\* kept, ap_continue is set, every other bit, ap_start included, is 0.
C8_ContinueWrites ==
    (DevReturned("continue") /\ ReadOk) =>
        /\ Len(dlog) = 2
        /\ dlog[2].op = "W"
        /\ dlog[2].addr = CtrlAddr
        /\ dlog[2].val = (ValueRead \cap {7}) \cup {4}
        /\ 0 \notin dlog[2].val

\* continue_() succeeded on a register that had ap_start and auto_restart set
C8_Witness ==
    /\ DevReturned("continue")
    /\ d.ret = 0
    /\ ReadOk
    /\ {0, 7} \subseteq ValueRead
    /\ dlog[2].val = {4, 7}

\* the values the host writes to the control register: those logged by the
\* running operation and the one in flight on the channel
WrittenValues ==
    {dlog[i].val : i \in Writes(dlog)}
    \cup (IF qpc # "idle" /\ q.caller = "dev" /\ q.op = "write" THEN {q.data} ELSE {})

\* C9 as stated: every value the host writes to the control register has
\* 1-bits only at positions 0 and 7.
C9_OnlyBits07 == \A v \in WrittenValues : v \subseteq {0, 7}

\* C9 as amended: every value the host writes to the control register has
\* 1-bits only at positions 0, 4 and 7; bit 4 (ap_continue) is written as 1
\* by continue_() alone, bit 0 by start() alone.
C9_OnlyBits047 ==
    \A v \in WrittenValues :
        /\ v \subseteq {0, 4, 7}
        /\ 4 \in v => d.fn = "continue"
        /\ 0 \in v => d.fn = "start"

\* continue_() has written ap_continue together with auto_restart
C9_Witness ==
    /\ DevReturned("continue")
    /\ Writes(dlog) # {}
    /\ {4, 7} \in WrittenValues

\* C10: for every control register value v read without transport error,
\* is_done() returns bit 1 of v, is_idle() returns bit 2 of v, and
\* is_ready_for_next() returns 1 exactly when bit 0 of v is 0, whatever bit 3
\* and the other bits are.
C10_StatusBits ==
    (d.pc = "ret" /\ ReadOk) =>
        /\ d.fn = "isdone" => d.ret = Bool(1 \in ValueRead)
        /\ d.fn = "isidle" => d.ret = Bool(2 \in ValueRead)
        /\ d.fn = "isready" => d.ret = Bool(0 \notin ValueRead)

\* is_ready_for_next() returned 1 on a register with ap_ready (bit 3) clear
C10_Witness ==
    /\ DevReturned("isready")
    /\ ReadOk
    /\ d.ret = 1
    /\ 3 \notin ValueRead
    /\ {1, 2} \subseteq ValueRead

\* C11: set_autorestart(enable) is a full overwrite: its register accesses are
\* exactly one write of the control register and no read, and the value
\* written is 0x80 when enable is non-zero and 0x00 when enable is 0, whatever
\* the register held before.
C11_AutorestartOverwrites ==
    DevReturned("autorestart") =>
        /\ Len(dlog) = 1
        /\ dlog[1].op = "W"
        /\ dlog[1].addr = CtrlAddr
        /\ dlog[1].val = (IF d.enable = 0 THEN {} ELSE {7})

\* autorestart(2) has written 0x80 and returned 0
C11_Witness ==
    /\ DevReturned("autorestart")
    /\ d.enable = 2
    /\ d.ret = 0
    /\ dlog[1].val = {7}

----------------------------------------------------------------------------
(* Properties of the operations on a simulated accelerator (SpecMock) *)

\* C12: on a register file changed only by host writes, continue_() followed
\* by start() leaves the auto_restart bit as it was before the sequence (its
\* value when the operation before continue_ returned), whether it was 1 or
\* 0 and whether start() succeeds, returns busy or fails.
C12_AutorestartKept ==
    \A i \in 2..(Len(hist) - 1) :
        (hist[i].fn = "continue" /\ hist[i + 1].fn = "start")
            => hist[i + 1].ar = hist[i - 1].ar

\* continue_() then start() have both succeeded with auto_restart enabled
C12_Witness ==
    /\ Len(hist) = 3
    /\ hist[1].ar = 1
    /\ hist[2].fn = "continue"
    /\ hist[2].ret = 0
    /\ hist[3].fn = "start"
    /\ hist[3].ret = 0
    /\ hist[3].ar = 1

\* C13: on a simulated accelerator whose control register is 0 at reset and
\* which never clears ap_start by itself, is_ready_for_next() returns 1 right
\* after the handle is created and 0 right after a start() that returned 0
\* (stated of calls whose register read did not fail in the transport).
C13_ReadyAfterCreateNotAfterStart ==
    /\ (/\ Len(hist) = 2
        /\ hist[1].fn = "init"
        /\ hist[1].ret = 1
        /\ hist[2].fn = "isready"
        /\ hist[2].rerr = 0
        /\ regs[PTDR_CTRL_ADDR_CTRL] = {}) => hist[2].ret = 1
    /\ \A i \in 1..(Len(hist) - 1) :
          (/\ hist[i].fn = "start"
           /\ hist[i].ret = 0
           /\ hist[i + 1].fn = "isready"
           /\ hist[i + 1].rerr = 0) => hist[i + 1].ret = 0

\* the handle was created on a register of 0, is_ready returned 1, start()
\* returned 0 and the next is_ready returned 0
C13_Witness ==
    /\ Len(hist) = 4
    /\ hist[1].fn = "init"
    /\ hist[1].ret = 1
    /\ hist[2].fn = "isready"
    /\ hist[2].ret = 1
    /\ hist[3].fn = "start"
    /\ hist[3].ret = 0
    /\ hist[4].fn = "isready"
    /\ hist[4].ret = 0
    /\ hist[4].rerr = 0

----------------------------------------------------------------------------
(* Properties of the orchestration (SpecRun) *)

\* ptdr_run_kernel has returned and its caller has not yet taken the result
Ran == api.fn = "run_kernel" /\ api.pc = "ret"

\* the operations of the running call that were called from one place
At(at) == {i \in 1..Len(hist) : hist[i].at = at}

\* the places ptdr_run_kernel polls the status from
PollSites == {"waitready", "isdone", "wd_ready", "wd_done", "wd_idle"}

NoReadError == \A i \in 1..Len(hist) : hist[i].rerr = 0

\* C14: ptdr_run_kernel returns 0 only after a poll of the second wait in
\* which is_done() or is_idle() returned 1, for every timeout value, 0
\* included (stated here of the runs in which no register read failed).
C14_SuccessAfterDoneSeen ==
    (Ran /\ api.ret = 0 /\ NoReadError) =>
        \E i \in 1..Len(hist) :
            /\ hist[i].at \in {"wd_done", "wd_idle"}
            /\ hist[i].fn \in {"isdone", "isidle"}
            /\ hist[i].ret = 1

\* C15: continue_() is called only when the is_done check that follows the
\* start saw ap_done = 1, and then exactly once, its write next to the write
\* of start with no register write in between.
C15_ContinueIffDone ==
    /\ (api.fn = "run_kernel" /\ api.pc = "continue")
           => hist[Len(hist)].ret = 1
    /\ \A i \in At("isdone") :
          /\ hist[i].ret = 0 => At("continue") = {}
          /\ hist[i].ret = 1 => (api.pc = "continue" \/ At("continue") = {i + 1})
    /\ \A j \in At("continue") :
          /\ hist[j - 1].at = "isdone"
          /\ hist[j - 1].nw = 0
          /\ hist[j - 2].at = "start"

\* C16: with timeout > 0, when is_ready_for_next() returned 0 at every one of
\* the polls of the first wait, ptdr_run_kernel has returned -EAGAIN and no
\* operation of the call wrote a register; and whenever it returns -EAGAIN
\* the last operation was a poll that wrote nothing and nothing is in flight.
C16_TimeoutWritesNothing ==
    /\ (/\ api.fn = "run_kernel"
        /\ api.timeout > 0
        /\ Cardinality({i \in At("waitready") : hist[i].ret = 0}) = api.timeout)
          => /\ Ran
             /\ api.ret = -EAGAIN
             /\ Len(hist) = api.timeout
             /\ \A i \in 1..Len(hist) : hist[i].nw = 0
    /\ (Ran /\ api.ret = -EAGAIN)
          => /\ hist[Len(hist)].at \in {"waitready", "wd_idle"}
             /\ hist[Len(hist)].nw = 0
             /\ d.pc = "idle"
             /\ qpc = "idle"

\* the accelerator was not ready at either of two polls
C16_Witness ==
    /\ Ran
    /\ api.timeout = 2
    /\ api.ret = -EAGAIN
    /\ Len(hist) = 2
    /\ hist[2].ret = 0

\* C17: when a register read of one of the polls of ptdr_run_kernel (first
\* wait, is_done check after the start, second wait) failed in the transport,
\* ptdr_run_kernel returns a negative value, never 0.
C17_ReadErrorReturned ==
    (Ran /\ \E i \in 1..Len(hist) : hist[i].at \in PollSites /\ hist[i].rerr = 1)
        => api.ret < 0

\* the polls of the second wait that found neither done nor idle
NegativeDonePolls == {i \in At("wd_idle") : hist[i].ret = 0}

\* C18: with timeout T > 0 each wait makes at most T polls; ptdr_run_kernel
\* returns -EAGAIN exactly when all T polls of a wait were negative, so a
\* positive poll, the T-th included, never gives a timeout.
C18_PollBudget ==
    (api.fn = "run_kernel" /\ api.timeout > 0) =>
        /\ Cardinality(At("waitready")) <= api.timeout
        /\ Cardinality(At("wd_done")) <= api.timeout
        /\ Cardinality(At("wd_idle")) <= api.timeout
        /\ Ran =>
              (api.ret = -EAGAIN <=>
                  \/ Cardinality({i \in At("waitready") : hist[i].ret = 0}) = api.timeout
                  \/ Cardinality(NegativeDonePolls) = api.timeout)

\* with T = 2 the second poll of each wait was the positive one
C18_Witness ==
    /\ Ran
    /\ api.timeout = 2
    /\ api.ret = 0
    /\ hist[1].ret = 0
    /\ hist[2].ret = 1
    /\ Cardinality(NegativeDonePolls) = 1
    /\ hist[Len(hist)].at = "wd_idle"
    /\ hist[Len(hist)].ret = 1

----------------------------------------------------------------------------
(* Properties of the life of a handle (SpecHandle) *)

\* the handle the caller holds is NULL, has no channel, has a wrong tag or
\* was destroyed
InvalidHandle ==
    \/ dev.ptr = "null"
    \/ dev.q_info = "null"
    \/ dev.sign # "magic"
    \/ heap.block = "freed"

\* C19: every operation called on a destroyed, NULL, channel-less or wrongly
\* tagged handle, a second destroy included, returns -EINVAL at once without
\* a transport read or write or a queue teardown; and destroy clears the tag
\* before it releases the channel.
C19_InvalidHandleRejected ==
    /\ [][(d.pc = "idle" /\ d'.pc # "idle" /\ d'.fn # "init" /\ InvalidHandle)
             => /\ d'.pc = "ret"
                /\ d'.ret = -EINVAL
                /\ qpc' = "idle"
                /\ heap' = heap
                /\ dlog' = <<>>]_vars
    /\ [](d.pc = "qd" => dev.sign = "cleared")

----------------------------------------------------------------------------
(* Properties of the commit of the input (SpecConf) *)

Committing == api.fn = "dev_conf"

OffsetSetters == {"set_durations", "set_route", "set_position", "set_departure",
                  "set_seed"}

\* the fields whose device-memory write comes before the setter of a field
FieldsOf(field) == IF field = "duration_v" THEN {"dur_vc", "duration_v"} ELSE {field}

\* entry i of hist is a write that failed
FailedAt(i) ==
    IF hist[i].fn = "queue_write" THEN hist[i].ret < 0 ELSE hist[i].ret # 0

\* C20 as stated: ptdr_dev_conf writes all five fields to device memory first
\* and only afterwards the offset registers, so no offset-register write
\* precedes the device-memory write of any field.
C20_FieldsBeforeRegisters ==
    Committing =>
        \A i, j \in 1..Len(hist) :
            (hist[i].fn \in OffsetSetters /\ hist[j].fn = "queue_write") => j < i

\* C20 amended: ptdr_dev_conf writes field by field; every offset-register
\* write directly follows the successful device-memory write of its own
\* field (so the setters of earlier fields precede the memory writes of
\* later ones), the base register is written last, after all five offset
\* setters returned 0, and a failed write ends the call with that negative
\* result and nothing after it.
C20_OwnFieldBeforeRegister ==
    Committing =>
        /\ \A i \in 1..Len(hist) :
              /\ hist[i].fn \in OffsetSetters =>
                    /\ i > 1
                    /\ hist[i - 1].fn = "queue_write"
                    /\ hist[i - 1].at = hist[i].at
                    /\ \A f \in FieldsOf(hist[i].at) :
                          \E j \in 1..(i - 1) :
                             /\ hist[j].fn = "queue_write"
                             /\ hist[j].at = f
                             /\ ~FailedAt(j)
              /\ hist[i].fn = "set_base" =>
                    /\ i = Len(hist)
                    /\ \A fn \in OffsetSetters :
                          \E j \in 1..(i - 1) : hist[j].fn = fn /\ hist[j].ret = 0
              /\ FailedAt(i) =>
                    /\ i = Len(hist)
                    /\ api.pc = "ret"
                    /\ api.ret < 0
        /\ (api.pc = "ret" /\ api.ret = 0) =>
              /\ hist # <<>>
              /\ hist[Len(hist)].fn = "set_base"
              /\ hist[Len(hist)].nw = 2

\* a commit has returned 0: the route's offset register was written before
\* the start position went to device memory, and the base register last
C20_Witness ==
    /\ Committing
    /\ api.pc = "ret"
    /\ api.ret = 0
    /\ Len(hist) = 12
    /\ hist[5].fn = "set_route"
    /\ hist[6].fn = "queue_write"
    /\ hist[12].fn = "set_base"

\* a write of the base register (either word) is under way or just done
BaseWrite ==
    /\ qpc # "idle"
    /\ q.op = "write"
    /\ q.addr \in {dev.base + PTDR_CTRL_ADDR_BASE,
                   dev.base + PTDR_CTRL_ADDR_BASE + REG_SIZE}

\* C21: in ptdr_dev_conf the base register is written only after all six
\* device-memory writes and all five offset setters succeeded, and nothing is
\* written after it; once a step has failed the call is at its return with a
\* negative result and the base register has not been written.
C21_BaseLastAndOnlyAfterSuccess ==
    Committing =>
        /\ (BaseWrite \/ \E i \in 1..Len(hist) : hist[i].fn = "set_base") =>
              /\ Len(hist) >= 11
              /\ \A j \in 1..11 : ~FailedAt(j)
              /\ Cardinality({j \in 1..11 : hist[j].fn = "queue_write"}) = 6
              /\ {hist[j].fn : j \in 1..11} \ {"queue_write"} = OffsetSetters
        /\ (\E i \in 1..Len(hist) : hist[i].fn = "set_base") =>
              /\ Len(hist) = 12
              /\ api.pc = "ret"
              /\ qpc = "idle"
        /\ (\E j \in 1..Len(hist) : j <= 11 /\ FailedAt(j)) =>
              /\ api.pc = "ret"
              /\ api.ret < 0
              /\ qpc = "idle"
              /\ ~BaseWrite
              /\ \A i \in 1..Len(hist) : hist[i].fn # "set_base"
              /\ api.calls = 0 => regs[PTDR_CTRL_ADDR_BASE] = {}

\* the position setter failed in the first commit: the call has returned
\* -EIO after seven steps and the base register is as it was
C21_Witness ==
    /\ Committing
    /\ api.calls = 0
    /\ api.pc = "ret"
    /\ api.ret = -EIO
    /\ Len(hist) = 7
    /\ hist[7].fn = "set_position"
    /\ regs[PTDR_CTRL_ADDR_BASE] = {}
    /\ regs[PTDR_CTRL_ADDR_ROUTE] # {}

\* the bytes of the input of the running commit, and the bytes end - base of
\* its window
TotalBytes(a) ==
    VEC_CONV_SIZE + U64_SIZE * a.samples + ROUTE_SIZE + ROUTEPOS_SIZE + U64_SIZE
        + U64_SIZE
WindowBytes(a) == U64_SIZE * a.avail.words + a.avail.rem

\* C22: ptdr_dev_conf (on a valid handle) returns -ENOMEM exactly when
\* 24 + 8*samples_count + sizeof(route) + 16 + 8 + 8 is greater than
\* end - base, a total equal to end - base passing; and the step that returns
\* -ENOMEM has read no route file, begun no transport call and left the
\* registers and device memory as they were.
C22_CapacityCheck ==
    /\ [](Committing =>
            /\ TotalBytes(api) > WindowBytes(api) =>
                  (api.pc = "ret" /\ api.ret = -ENOMEM)
            /\ (api.pc = "ret" /\ api.ret = -ENOMEM) =>
                  /\ TotalBytes(api) > WindowBytes(api)
                  /\ hist = <<>>
                  /\ api.route = "unread"
                  /\ qpc = "idle")
    /\ [][(api.fn = "none" /\ api'.fn = "dev_conf" /\ api'.ret = -ENOMEM)
             => /\ regs' = regs
                /\ mem' = mem
                /\ qvars' = qvars]_vars

\* a commit whose window is one byte short of its input has returned -ENOMEM
C22_Witness ==
    /\ Committing
    /\ api.pc = "ret"
    /\ api.ret = -ENOMEM
    /\ WindowBytes(api) = TotalBytes(api) - 1
    /\ api.samples = MaxSamples

\* a commit whose window is exactly its input has gone on to write
C22_WitnessExact ==
    /\ Committing
    /\ WindowBytes(api) = TotalBytes(api)
    /\ api.pc = "step"
    /\ api.route = "read"

\* the offset of each field in words from base, as the layout is described:
\* duration, route, position, departure, seed, without gaps
OffsetOf(field, samples) ==
    CASE field \in {"dur_vc", "duration_v"} -> 0
      [] field = "route" -> Words(VEC_CONV_SIZE) + samples
      [] field = "start_pos" -> Words(VEC_CONV_SIZE) + samples + Words(ROUTE_SIZE)
      [] field = "departure_time" ->
            Words(VEC_CONV_SIZE) + samples + Words(ROUTE_SIZE) + Words(ROUTEPOS_SIZE)
      [] field = "seed" ->
            Words(VEC_CONV_SIZE) + samples + Words(ROUTE_SIZE) + Words(ROUTEPOS_SIZE)
               + Words(U64_SIZE)

RegOf(field) ==
    CASE field = "duration_v" -> PTDR_CTRL_ADDR_DUR
      [] field = "route" -> PTDR_CTRL_ADDR_ROUTE
      [] field = "start_pos" -> PTDR_CTRL_ADDR_POS
      [] field = "departure_time" -> PTDR_CTRL_ADDR_DEP
      [] field = "seed" -> PTDR_CTRL_ADDR_SEED

LayoutFields == {"duration_v", "route", "start_pos", "departure_time", "seed"}

\* C23: after a successful ptdr_dev_conf the fields lie without gaps in the
\* order duration, route, position, departure, seed: DUR = 0,
\* ROUTE = 24 + 8*samples_count, POS = ROUTE + sizeof(route), DEP = POS + 16,
\* SEED = DEP + 8, each field was written at base + its offset, and so the
\* offsets depend on samples_count only and move by 8*d with it.
C23_ContiguousLayout ==
    (Committing /\ api.pc = "ret" /\ api.ret = 0) =>
        /\ \A f \in LayoutFields :
              regs[RegOf(f)] = WordBits(OffsetOf(f, api.samples))
        /\ \A i \in 1..Len(hist) :
              hist[i].fn = "queue_write" =>
                 hist[i].addr = (IF hist[i].at = "duration_v"
                                 THEN Words(VEC_CONV_SIZE)
                                 ELSE OffsetOf(hist[i].at, api.samples))

\* ptdr_dev_get_durv has returned to its caller
DurvReturned == api.fn = "dev_get_durv" /\ api.pc = "ret"

\* no queue_read of the running ptdr_dev_get_durv failed in the transport
NoTransportError == \A i \in 1..Len(hist) : hist[i].ret >= 0

\* C24: on a memory that keeps what is written, ptdr_dev_conf with the
\* durations D and the count n that returned 0, followed by
\* ptdr_dev_get_durv with the same n and base and no transport error,
\* returns 0 and the caller's buffer holds exactly D.
C24_RoundTrip ==
    (/\ DurvReturned
     /\ api.last.fn = "dev_conf"
     /\ api.last.ret = 0
     /\ api.last.samples = api.samples
     /\ NoTransportError)
    => /\ api.ret = 0
       /\ api.buf = api.last.dur

\* the largest duration vector has come back as it was written
C24_Witness ==
    /\ DurvReturned
    /\ api.last.fn = "dev_conf"
    /\ api.last.ret = 0
    /\ api.samples = MaxSamples
    /\ api.last.dur = [i \in 1..MaxSamples |-> MaxSamples + 1 - i]
    /\ api.ret = 0
    /\ api.buf = api.last.dur

\* the size the header in device memory reports (third word of vec_conv)
HeaderSize == mem[Words(VEC_CONV_SIZE) - 1]

\* the header read of the ptdr_dev_get_durv that has returned was complete
HeaderRead == Len(hist) >= 1 /\ hist[1].ret = Words(VEC_CONV_SIZE)

\* C25: ptdr_dev_get_durv reads the header first; a header whose size is
\* not samples_count gives -EINVAL, which is not the transport error -EIO,
\* the durations are not read and the caller's buffer is as it was; a failed
\* header read gives -EIO.
C25_HeaderChecked ==
    DurvReturned =>
        /\ Len(hist) >= 1 =>
              /\ hist[1].at = "header"
              /\ hist[1].addr = 0
        /\ (HeaderRead /\ HeaderSize # api.samples) =>
              /\ api.ret = -EINVAL
              /\ api.ret # -EIO
              /\ Len(hist) = 1
              /\ api.buf = [i \in 1..api.samples |-> 0]
        /\ (Len(hist) >= 1 /\ ~HeaderRead) =>
              /\ api.ret = -EIO
              /\ Len(hist) = 1

\* a header of another size was read and the call has returned
C25_Witness ==
    /\ DurvReturned
    /\ HeaderRead
    /\ HeaderSize # api.samples
    /\ api.samples = MaxSamples
    /\ api.ret = -EINVAL

\* ptdr_read_route_from_file has returned
RouteReturned == rt.pc = "ret"

\* both fields before the segments were read whole
HeaderParsed == rt.file.exists /\ rt.file.len >= 2 * U64_SIZE

\* the bytes after the count are well formed: every announced segment is
\* there, with an id length that is one
WellFormed ==
    /\ rt.file.id >= 0
    /\ rt.file.len >= 2 * U64_SIZE + rt.file.count * SegmentBytes(rt.file.id)

\* C26: a count of MAX_SIZE_SEGMENTS + 1 or more is rejected with an error
\* and the stream is not read past the count field; a count of exactly
\* MAX_SIZE_SEGMENTS is accepted when the bytes that follow are well formed.
C26_CountLimit ==
    RouteReturned =>
        /\ (HeaderParsed /\ rt.file.count > MAX_SIZE_SEGMENTS) =>
              /\ rt.ret = -EINVAL
              /\ rt.fpos = 2 * U64_SIZE
              /\ rt.route.segments = 0
              /\ rt.route.part = 0
        /\ (HeaderParsed /\ rt.file.count = MAX_SIZE_SEGMENTS /\ WellFormed) =>
              /\ rt.ret = 0
              /\ rt.route.size = MAX_SIZE_SEGMENTS
              /\ rt.route.segments = MAX_SIZE_SEGMENTS

\* a file of MAX_SIZE_SEGMENTS segments with ids has been loaded whole
C26_Witness ==
    /\ RouteReturned
    /\ rt.file.count = MAX_SIZE_SEGMENTS
    /\ rt.file.id > 0
    /\ rt.ret = 0
    /\ rt.route.segments = MAX_SIZE_SEGMENTS
    /\ rt.fpos = rt.file.len

\* a file of MAX_SIZE_SEGMENTS + 1 whole segments has been rejected
C26_WitnessRejected ==
    /\ RouteReturned
    /\ rt.file.count = MAX_SIZE_SEGMENTS + 1
    /\ WellFormed
    /\ rt.ret = -EINVAL

\* C27: when the count read exceeds the maximum the parser fails and every
\* field of the descriptor, the frequency too, is as it was before the call.
C27_DescriptorUntouched ==
    (RouteReturned /\ HeaderParsed /\ rt.file.count > MAX_SIZE_SEGMENTS) =>
        /\ rt.ret # 0
        /\ rt.route = ZeroRoute

\* the registers of the 64-bit value of the handle's kernel
BaseLow == dev.base + BaseReg(dev.kern)
BaseHigh == dev.base + BaseReg(dev.kern) + REG_SIZE

\* C28: set_base(x) writes the low 32 bits of x to the base register and
\* then the high 32 bits to the register after it, and when neither it nor
\* the get_base that follows meets a transport error, get_base returns
\* low | (high << 32) = x, for every 64-bit x.
C28_BaseRoundTrip ==
    /\ \A i \in 1..Len(hist) :
          (hist[i].fn = "set_base" /\ hist[i].ret = 0) =>
             /\ Len(hist[i].log) = 2
             /\ hist[i].log[1].op = "W" /\ hist[i].log[1].addr = BaseLow
             /\ hist[i].log[1].val = {b \in hist[i].val : b < 32}
             /\ hist[i].log[2].op = "W" /\ hist[i].log[2].addr = BaseHigh
             /\ hist[i].log[2].val = {b - 32 : b \in {c \in hist[i].val : c >= 32}}
    /\ \A i \in 1..(Len(hist) - 1) :
          (/\ hist[i].fn = "set_base" /\ hist[i].ret = 0
           /\ hist[i + 1].fn = "get_base" /\ hist[i + 1].ret = 0) =>
             hist[i + 1].val = hist[i].val

\* a value with bits in both words has been set and got back
C28_Witness ==
    /\ Len(hist) = 2
    /\ hist[1].fn = "set_base" /\ hist[1].ret = 0
    /\ hist[1].val = {0, 31, 32, 63}
    /\ hist[2].fn = "get_base" /\ hist[2].ret = 0
    /\ hist[2].val = {0, 31, 32, 63}

\* the places in hist of thread t's register read, of its write, and of its
\* return
ReadsOf(t) == {i \in 1..Len(hist) : hist[i].t = t /\ hist[i].op = "R"}
WritesOf(t) == {i \in 1..Len(hist) : hist[i].t = t /\ hist[i].op = "W"}
ReturnsOf(t) == {i \in 1..Len(hist) : hist[i].t = t /\ hist[i].op = "ret"}

\* thread t called fn and has 0 back
Succeeded(t, fn) == th[t].fn = fn /\ th[t].pc = "ret" /\ th[t].ret = 0

\* the call of thread t was over before thread u called
Before(t, u) == \E i \in ReturnsOf(t) : \A j \in 1..Len(hist) : hist[j].t = u => i < j

\* C29: start reads the control register and then writes it, as two
\* operations on the handle with nothing to keep another caller out: a start
\* that returns 0 read ap_start = 0 and wrote ap_start = 1, one start after
\* the other cannot both return 0, and two starts that run at the same time
\* can: both read ap_start = 0, both write ap_start = 1, both return 0.
C29_OverlappingStarts ==
    /\ \A t \in Threads :
          Succeeded(t, "start") =>
             /\ \E i \in ReadsOf(t) : 0 \notin hist[i].val
             /\ \E j \in WritesOf(t) : 0 \in hist[j].val
             /\ \A i \in ReadsOf(t), j \in WritesOf(t) : i < j
    /\ (\A t \in Threads : Succeeded(t, "start")) =>
          \A t \in Threads, u \in Threads : ~Before(t, u)

\* both threads read ap_start = 0 in the control register, both wrote
\* ap_start = 1 to it, both have 0
C29_Witness ==
    /\ \A t \in Threads : Succeeded(t, "start")
    /\ \A t \in Threads :
          /\ \E i \in ReadsOf(t) : 0 \notin hist[i].val /\ hist[i].pos = CtrlAddr
          /\ \E j \in WritesOf(t) :
                0 \in hist[j].val /\ hist[j].ret = REG_SIZE /\ hist[j].pos = CtrlAddr
    /\ \A t \in Threads, u \in Threads :
          \A i \in ReadsOf(t), j \in WritesOf(u) : i < j

\* C30: autorestart(1) run at the same time as start or continue can lose
\* its bit: with both calls over and autorestart(1) having returned 0, bit 7
\* of the control register is 0 only when the calls ran at the same time,
\* and it is 0 when autorestart(1) returned between the read and the write
\* of the other call.
C30_LostAutorestart ==
    \A t \in Threads, u \in Threads :
        (/\ Succeeded(t, "autorestart") /\ th[t].enable = 1
         /\ th[u].fn \in {"start", "continue"} /\ th[u].pc = "ret"
         /\ 7 \notin regs[PTDR_CTRL_ADDR_CTRL])
        => ~Before(t, u) /\ ~Before(u, t)

\* autorestart(1) returned 0 between the read and the write of a start that
\* returned 0 too, and bit 7 of the control register is 0
C30_Witness ==
    \E t \in Threads, u \in Threads :
        /\ Succeeded(t, "autorestart") /\ th[t].enable = 1
        /\ Succeeded(u, "start")
        /\ \E i \in ReadsOf(u), j \in WritesOf(t), r \in ReturnsOf(t), k \in WritesOf(u) :
              /\ i < j /\ j < r /\ r < k
              /\ hist[i].pos = CtrlAddr /\ hist[j].pos = CtrlAddr /\ hist[k].pos = CtrlAddr
              /\ hist[j].ret = REG_SIZE /\ hist[k].ret = REG_SIZE
        /\ 7 \notin regs[PTDR_CTRL_ADDR_CTRL]

\* the same with continue as the other call
C30_WitnessContinue ==
    \E t \in Threads, u \in Threads :
        /\ Succeeded(t, "autorestart") /\ th[t].enable = 1
        /\ Succeeded(u, "continue")
        /\ \E i \in ReadsOf(u), j \in WritesOf(t), r \in ReturnsOf(t), k \in WritesOf(u) :
              /\ i < j /\ j < r /\ r < k
              /\ hist[i].pos = CtrlAddr /\ hist[j].pos = CtrlAddr /\ hist[k].pos = CtrlAddr
              /\ hist[j].ret = REG_SIZE /\ hist[k].ret = REG_SIZE
        /\ 7 \notin regs[PTDR_CTRL_ADDR_CTRL]

\* the accesses and the result of the operation that has returned are those
\* of kernel k's function of that name, on the values read and the transport
\* outcomes the operation met
AsKernel(k) ==
    IF dlog = <<>> THEN d.ret = -EINVAL
    ELSE IF d.fn \in ReadFns
    THEN /\ dlog[1].op = "R"
         /\ dlog[1].addr = dev.base + CtrlReg(k)
         /\ LET dec == AfterRead(k, d.fn, dlog[1].failed, dlog[1].val) IN
            IF dec.act = "return"
            THEN Len(dlog) = 1 /\ d.ret = dec.ret
            ELSE /\ Len(dlog) = 2
                 /\ dlog[2].op = "W"
                 /\ dlog[2].addr = dev.base + CtrlReg(k)
                 /\ dlog[2].val = dec.val
                 /\ d.ret = WriteResult(dlog[2].failed)
    ELSE IF d.fn \in {"autorestart", "interruptglobal"}
    THEN /\ Len(dlog) = 1
         /\ dlog[1].op = "W"
         /\ dlog[1].addr = dev.base + (IF d.fn = "autorestart" THEN CtrlReg(k)
                                        ELSE GieReg(k))
         /\ dlog[1].val = (IF d.fn = "autorestart" THEN Autorestart(k, d.enable).val
                           ELSE Interruptglobal(k, d.enable).val)
         /\ d.ret = WriteResult(dlog[1].failed)
    ELSE /\ d.fn = "destroy"
         /\ dlog = <<Teardown>>
         /\ d.ret = 0

\* C31: the control protocol of the helm and the ptdr kernel is the same:
\* on the same register contents and the same transport outcomes, start,
\* continue, isdone, isidle, isready, autorestart, interruptglobal and
\* dev_destroy of either kernel make the register reads and writes (offsets
\* 0x00 and 0x04, values) and return the results of the other kernel's.
C31_SameProtocol ==
    /\ (qpc = "ret" /\ q.caller = "dev") =>
          /\ ptdr_reg_read(q.ret) = helm_reg_read(q.ret)
          /\ ptdr_reg_write(q.ret) = helm_reg_write(q.ret)
    /\ d.pc = "ret" => \A k \in Kerns : AsKernel(k)

\* a helm handle has a continue back that read the register with
\* auto_restart set and wrote it
C31_Witness ==
    /\ dev.kern = "helm"
    /\ d.pc = "ret"
    /\ d.fn = "continue"
    /\ d.ret = 0
    /\ Len(dlog) = 2
    /\ 7 \in dlog[1].val
    /\ AsKernel("ptdr")

\* ---------------------------------------------------------------------------
\* uint64_t arithmetic.  A 64-bit value is four 16-bit limbs, lowest first;
\* the same operators on six limbs give the exact result of any expression
\* ptdr_dev_conf or the window checks compute, with no wrap-around.
\* ---------------------------------------------------------------------------
Limb == 2 ^ 16

Limbs64 == 1..4

LimbsWide == 1..6

\* n < 2^31 as a value of the limbs ls
Num(n, ls) ==
    [i \in ls |-> IF i = 1 THEN n % Limb ELSE IF i = 2 THEN n \div Limb ELSE 0]

U64(n) == Num(n, Limbs64)

\* 2^k
Pow2(k) == [i \in Limbs64 |-> IF i = (k \div 16) + 1 THEN 2 ^ (k % 16) ELSE 0]

\* a 64-bit value taken as a number
Wide(a) == [i \in LimbsWide |-> IF i \in Limbs64 THEN a[i] ELSE 0]

\* a + b and a - b modulo 2^(16 * number of limbs)
Add(a, b) ==
    LET c[i \in {0} \cup DOMAIN a] ==
            IF i = 0 THEN 0 ELSE (a[i] + b[i] + c[i - 1]) \div Limb
    IN  [i \in DOMAIN a |-> (a[i] + b[i] + c[i - 1]) % Limb]

Sub(a, b) ==
    LET w[i \in {0} \cup DOMAIN a] ==
            IF i = 0 THEN 0 ELSE IF a[i] - b[i] - w[i - 1] < 0 THEN 1 ELSE 0
    IN  [i \in DOMAIN a |-> (a[i] - b[i] - w[i - 1] + Limb) % Limb]

\* a < b, a <= b as unsigned values
Lt(a, b) ==
    \E i \in DOMAIN a :
        /\ a[i] < b[i]
        /\ \A j \in DOMAIN a : j > i => a[j] = b[j]

Le(a, b) == a = b \/ Lt(a, b)

\* a * sizeof(uint64_t)
Times8(a) ==
    LET a2 == Add(a, a)
        a4 == Add(a2, a2)
    IN  Add(a4, a4)

\* sizeof(struct vec_conv) + sizeof(route) + sizeof(start_pos) +
\* sizeof(departure_time) + sizeof(seed)
FixedSize == VEC_CONV_SIZE + ROUTE_SIZE + ROUTEPOS_SIZE + U64_SIZE + U64_SIZE

\* uint64_t ptdr_data_size = ... + samples_count * sizeof(duration_v[0]) + ...
ptdr_data_size64(samples) == Add(U64(FixedSize), Times8(samples))

\* if (ptdr_data_size > (end - base)) return -ENOMEM;
CapacityCheck64_nowrap(samples, base, end) ==
    IF \/ Lt(end, base)
       \/ Lt(Sub(Wide(end), Wide(base)),
             Add(Num(FixedSize, LimbsWide), Times8(Wide(samples))))
    THEN -ENOMEM ELSE 0

CapacityCheck64(samples, base, end) ==
    IF Lt(Sub(end, base), ptdr_data_size64(samples)) THEN -ENOMEM ELSE 0

\* sample counts, window starts and window ends ptdr_dev_conf can be called
\* with: small ones, the largest of SpecLayout, and those around 2^61, where
\* 8 * samples_count reaches 2^64
Counts64 ==
    {U64(n) : n \in 0..MaxSamples} \cup
    {U64(2 ^ 29 - 3), Pow2(32), Pow2(61), Add(Pow2(61), U64(1)),
     Sub(Pow2(61), U64(FixedSize \div U64_SIZE)), Pow2(63),
     Sub(U64(0), U64(1))}

Bases64 == {U64(0), U64(MEM_BASE_ADDR), Pow2(33)}

Ends64(base) ==
    {U64(0), Pow2(33), Pow2(34), base, Sub(base, U64(1)),
     Add(base, U64(FixedSize)), Add(base, U64(FixedSize + U64_SIZE)),
     Add(base, U64(FixedSize + 2 * U64_SIZE))}

\* ptdr_dev_conf up to its capacity check, on 64-bit arguments
Conf64Call ==
    /\ api.pc = "idle"
    /\ heap.block = "live"
    /\ \E samples \in Counts64, base \in Bases64 :
        \E end \in Ends64(base) :
            api' = [fn |-> "conf64", pc |-> "check", samples |-> samples,
                    base |-> base, end |-> end, ret |-> 0]
    /\ UNCHANGED <<qpc, q, fdpos, qtrace, qerr, drift, regs, dev, d, dlog, heap,
                   hist, mem, rt, th>>

Conf64Check ==
    /\ api.pc = "check"
    /\ api' = [api EXCEPT !.pc = "checked",
                          !.ret = CapacityCheck64(api.samples, api.base, api.end)]
    /\ UNCHANGED <<qpc, q, fdpos, qtrace, qerr, drift, regs, dev, d, dlog, heap,
                   hist, mem, rt, th>>

NextCapacity ==
    \/ Conf64Call
    \/ Conf64Check

SpecCapacity == InitConf /\ [][NextCapacity]_vars

\* C32: whenever ptdr_dev_conf passes its capacity check, for any 64-bit
\* samples_count, base and end, the exact total 24 + 8 * samples_count +
\* sizeof(route) + 32 is at most the exact end - base, with end >= base: the
\* check is never passed through wrap-around.
C32_NoWrapAround ==
    (api.pc = "checked" /\ api.ret = 0) =>
        /\ Le(api.base, api.end)
        /\ Le(Add(Num(FixedSize, LimbsWide), Times8(Wide(api.samples))),
              Sub(Wide(api.end), Wide(api.base)))

\* the check passes and the data does fit
C32_Fits ==
    /\ api.pc = "checked"
    /\ api.ret = 0
    /\ api.samples = U64(MaxSamples)
    /\ CapacityCheck64_nowrap(api.samples, api.base, api.end) = 0

\* the register that holds the offset of what queue_write wrote for `at`:
\* the DUR register points at the vec_conv header, not at the samples
OffsetRegOf(at) == RegOf(IF at = "dur_vc" THEN "duration_v" ELSE at)

\* C33: after a successful ptdr_dev_conf every 32-bit offset register holds
\* the displacement from base of the address its field was written to, for
\* every accepted samples_count, those with offsets of 2^32 and more
\* included.
C33_RegistersHoldOffsets ==
    (Committing /\ api.pc = "ret" /\ api.ret = 0) =>
        \A i \in 1..Len(hist) :
            (hist[i].fn = "queue_write" /\ hist[i].at # "duration_v") =>
                regs[OffsetRegOf(hist[i].at)] = WordBits(hist[i].addr)

\* a successful configuration whose offsets all fit in 32 bits
C33_Below4G ==
    /\ Committing
    /\ api.pc = "ret"
    /\ api.ret = 0
    /\ api.samples = MaxSamples
    /\ \A i \in 1..Len(hist) :
            (hist[i].fn = "queue_write" /\ hist[i].at # "duration_v") =>
                regs[OffsetRegOf(hist[i].at)] = WordBits(hist[i].addr)

\* ptdr_dev_init has returned after its probe read of the control register
\* failed (queue_setup had succeeded, or there would be no probe)
ProbeFailed ==
    /\ d.fn = "init"
    /\ d.pc = "ret"
    /\ Len(dlog) = 1
    /\ dlog[1].op = "R"
    /\ dlog[1].failed # 0

\* C34: when ptdr_dev_init fails at the probe read after queue_setup
\* succeeded, the channel has been destroyed (queue_destroy) and the handle
\* freed by the time NULL is returned.
C34_ProbeFailureReleases ==
    ProbeFailed =>
        /\ d.ret = 0
        /\ heap = [block |-> "freed", chan |-> "closed"]

\* the probe failed and the block happened to hold the tag: all is released
C34_Released ==
    /\ ProbeFailed
    /\ d.ret = 0
    /\ heap = [block |-> "freed", chan |-> "closed"]

\* ---------------------------------------------------------------------------
\* ptdr_api.c: ptdr_init gives the function its window of device memory,
\* mem_write and mem_read check a transfer against it.  The handle of the
\* API (ptdr_t) is api.handle; each function is taken as one step, the calls
\* it makes succeeding or failing as a whole.
\* ---------------------------------------------------------------------------
EFAULT == 14
EFBIG == 27
VF_NUM_MAX == 252
PTDR_CTRL_ADDR_NUM_TIMES == 16

\* the small numbers of functions tried besides the limits
MaxVfs == 3

MEM_END_ADDR == Pow2(33)

KERN_BASE_ADDR == Pow2(34)

DRIVER_TYPE == "ptdr"

\* a * k and a / n for a small k >= 0 and n > 0
MulSmall(a, k) ==
    LET c[i \in {0} \cup DOMAIN a] ==
            IF i = 0 THEN 0 ELSE (a[i] * k + c[i - 1]) \div Limb
    IN  [i \in DOMAIN a |-> (a[i] * k + c[i - 1]) % Limb]

DivSmall(a, n) ==
    LET top == CHOOSE i \in DOMAIN a : \A j \in DOMAIN a : j <= i
        r[i \in DOMAIN a \cup {top + 1}] ==
            IF i = top + 1 THEN 0 ELSE (r[i + 1] * Limb + a[i]) % n
    IN  [i \in DOMAIN a |-> (r[i + 1] * Limb + a[i]) \div n]

\* get_vf_num: the first entry of /dev/virtio-ports that matches
\* everestvf_<curr_vf_num>_<vf_idx>_<bdf>_<type>, if there is one
get_vf_num(found, curr_vf_num, vf_idx, vf_type) ==
    IF ~found THEN -1
    ELSE IF vf_type # DRIVER_TYPE THEN -1
    ELSE IF vf_idx < 0 \/ vf_idx >= VF_NUM_MAX THEN -1
    ELSE IF curr_vf_num <= 0 \/ curr_vf_num > VF_NUM_MAX THEN -1
    ELSE 0

\* mem_size_per_vf, mem_start, mem_end and kern_addr of ptdr_init
Window(curr_vf_num, vf_idx) ==
    LET mem_size_per_vf ==
            DivSmall(Sub(MEM_END_ADDR, U64(MEM_BASE_ADDR)), curr_vf_num)
        mem_start == Add(U64(MEM_BASE_ADDR), MulSmall(mem_size_per_vf, vf_idx))
    IN  [mem_start |-> mem_start,
         mem_end |-> Add(mem_start, mem_size_per_vf),
         kern_addr |-> Add(KERN_BASE_ADDR, MulSmall(U64(KERN_VF_INCR), vf_idx))]

NoHandle == [ptr |-> "null", sign |-> "none", dev |-> "null",
             mem_start |-> U64(0), mem_end |-> U64(0), kern_addr |-> U64(0)]

ApiIdle(h) == [fn |-> "none", pc |-> "idle", ret |-> 0, handle |-> h]

\* CHECK_DEV_PTR of ptdr_api.c
ApiCheck(h) ==
    IF h.ptr = "null" \/ h.dev = "null" \/ h.sign # "magic" THEN -EINVAL ELSE 0

VfNums == (-1..MaxVfs) \cup {VF_NUM_MAX, VF_NUM_MAX + 1}

VfIdxs == (-1..MaxVfs) \cup {VF_NUM_MAX - 1, VF_NUM_MAX}

\* the register writes of ptdr_init after ptdr_dev_init: numtimes 1,
\* autorestart 0, interruptglobal 0
InitWrites ==
    <<[fn |-> "set_numtimes", reg |-> PTDR_CTRL_ADDR_NUM_TIMES, val |-> BitsOf(1)],
      [fn |-> "autorestart", reg |-> PTDR_CTRL_ADDR_CTRL,
       val |-> ptdr_autorestart(0).val],
      [fn |-> "interruptglobal", reg |-> PTDR_CTRL_ADDR_GIE,
       val |-> ptdr_interruptglobal(0).val]>>

\* ptdr_init: NULL (ret 0) or the handle (ret 1); write number `fail` fails.
\* nums and idxs are the numbers an entry of /dev/virtio-ports may hold.
PtdrInitFrom(nums, idxs) ==
    /\ api.fn = "none"
    /\ api.handle.ptr = "null"
    /\ \E found \in BOOLEAN, curr_vf_num \in nums, vf_idx \in idxs,
          vf_type \in {"ptdr", "helm"}, bdf_ok \in BOOLEAN,
          m \in {"ok", "nomem"}, fail \in 1..(Len(InitWrites) + 1) :
       \E hp \in {NoHeap, [block |-> "freed", chan |-> "none"], LiveHeap,
                  [block |-> "freed", chan |-> "closed"]} :
          LET w == Window(curr_vf_num, vf_idx)
              null == [fn |-> "init", pc |-> "ret", ret |-> 0, handle |-> NoHandle,
                       curr_vf_num |-> curr_vf_num, vf_idx |-> vf_idx]
              done == IF fail > Len(InitWrites) THEN Len(InitWrites) ELSE fail
          IN
          IF \/ get_vf_num(found, curr_vf_num, vf_idx, vf_type) = -1
             \/ ~bdf_ok
             \/ m = "nomem"
          THEN /\ api' = null
               /\ UNCHANGED <<regs, dev, heap, hist>>
          ELSE IF hp # LiveHeap
          THEN /\ api' = null
               /\ heap' = hp
               /\ UNCHANGED <<regs, dev, hist>>
          ELSE /\ hist' = [i \in 1..done |->
                             [fn |-> InitWrites[i].fn, reg |-> InitWrites[i].reg,
                              val |-> InitWrites[i].val,
                              ret |-> IF i = fail THEN -EIO ELSE 0]]
               /\ regs' = [o \in DOMAIN regs |->
                             IF \E i \in 1..(fail - 1) : InitWrites[i].reg = o
                             THEN InitWrites[CHOOSE i \in 1..(fail - 1) :
                                                InitWrites[i].reg = o].val
                             ELSE regs[o]]
               /\ IF fail <= Len(InitWrites)
                  THEN /\ api' = null
                       /\ heap' = [block |-> "freed", chan |-> "closed"]
                       /\ dev' = [ValidDev("ptdr") EXCEPT !.sign = "cleared"]
                  ELSE /\ api' = [null EXCEPT
                                    !.ret = 1,
                                    !.handle = [ptr |-> "block", sign |-> "magic",
                                                dev |-> "block",
                                                mem_start |-> w.mem_start,
                                                mem_end |-> w.mem_end,
                                                kern_addr |-> w.kern_addr]]
                       /\ heap' = LiveHeap
                       /\ dev' = ValidDev("ptdr")
    /\ UNCHANGED <<qvars, d, dlog, mem, rt, th>>

PtdrInit == PtdrInitFrom(VfNums, VfIdxs)

\* ptdr_destroy; the caller drops its pointer
PtdrDestroy ==
    /\ api.fn = "none"
    /\ IF ApiCheck(api.handle) # 0
       THEN /\ api' = [fn |-> "destroy", pc |-> "ret", ret |-> -EINVAL,
                       handle |-> api.handle]
            /\ UNCHANGED <<dev, heap>>
       ELSE /\ api' = [fn |-> "destroy", pc |-> "ret", ret |-> 0,
                       handle |-> NoHandle]
            /\ dev' = NullDev("ptdr")
            /\ heap' = [block |-> "freed", chan |-> "closed"]
    /\ hist' = <<>>
    /\ UNCHANGED <<qvars, regs, d, dlog, mem, rt, th>>

\* mem_addr = mem_start + offset and the two checks of mem_write / mem_read
WindowCheck_nowrap(h, offset, size) ==
    LET off == Add(Wide(h.mem_start), Wide(offset))
    IN  IF Lt(off, Wide(h.mem_start)) \/ ~Lt(off, Wide(h.mem_end)) THEN -EFAULT
        ELSE IF Lt(Wide(h.mem_end), Add(off, Wide(size))) THEN -EFBIG
        ELSE 0

WindowCheck(h, offset, size) ==
    LET mem_addr == Add(h.mem_start, offset)
    IN  IF Lt(mem_addr, h.mem_start) \/ ~Lt(mem_addr, h.mem_end) THEN -EFAULT
        ELSE IF Lt(h.mem_end, Add(mem_addr, size)) THEN -EFBIG
        ELSE 0

\* The channel of the memory transfers is the channel of the register
\* accesses (ptdr->q_info) and the address is the device's: the bytes of a
\* transfer [addr, addr + size) that fall on the control register of the
\* function, at kern_addr, are a write of that register.
Covers(addr, size, target) ==
    /\ Le(Wide(addr), Wide(target))
    /\ Le(Add(Wide(target), Num(REG_SIZE, LimbsWide)), Add(Wide(addr), Wide(size)))

DeviceWrite(rf, h, addr, size, data) ==
    IF Covers(addr, size, Add(h.kern_addr, U64(PTDR_CTRL_ADDR_CTRL)))
    THEN [rf EXCEPT ![PTDR_CTRL_ADDR_CTRL] = data]
    ELSE rf

\* what the caller's buffer holds where it meets a register
BufferWords == {{}, BitsOf(128)}

\* offsets and sizes a caller may pass for a window of w bytes
Offsets64(h) ==
    LET w == Sub(h.mem_end, h.mem_start)
    IN  {U64(0), U64(U64_SIZE), Sub(w, U64(1)), w, Pow2(63),
         Sub(U64(0), h.mem_start), Sub(U64(0), U64(U64_SIZE)),
         Sub(h.kern_addr, h.mem_start)}

Sizes64(h) ==
    LET w == Sub(h.mem_end, h.mem_start)
    IN  {U64(0), U64(U64_SIZE), Sub(w, U64(U64_SIZE)), w, Add(w, U64(1)),
         Pow2(63), Sub(U64(0), U64(U64_SIZE)), Sub(U64(0), U64(1))}

\* mem_write (op "queue_write") and mem_read (op "queue_read"): what the
\* transport returns is the result: an error, or the bytes moved (an
\* ssize_t, so less than 2^63).  The transport moves the bytes in address
\* order: one that fails may have reached the control register before.
ApiMem(op, fn) ==
    /\ api.fn = "none"
    /\ \E offset \in Offsets64(api.handle), xfer \in {"error", "all"},
          data \in BufferWords, reached \in BOOLEAN :
       \E size \in Sizes64(api.handle) :
          LET h == api.handle
              a == [fn |-> fn, pc |-> "ret", ret |-> 0, handle |-> h,
                    offset |-> offset, size |-> size, xfer |-> "none"]
          IN
          IF ApiCheck(h) # 0
          THEN /\ api' = [a EXCEPT !.ret = -EINVAL]
               /\ hist' = <<>>
               /\ regs' = regs
          ELSE IF WindowCheck(h, offset, size) # 0
          THEN /\ api' = [a EXCEPT !.ret = WindowCheck(h, offset, size)]
               /\ hist' = <<>>
               /\ regs' = regs
          ELSE /\ xfer = "all" => (reached /\ Lt(size, Pow2(63)))
               /\ api' = [a EXCEPT !.xfer = xfer,
                                   !.ret = IF xfer = "error" THEN -1 ELSE 0]
               /\ hist' = <<[fn |-> op, addr |-> Add(h.mem_start, offset),
                             size |-> size]>>
               /\ regs' = IF op = "queue_write" /\ reached
                          THEN DeviceWrite(regs, h, Add(h.mem_start, offset),
                                           size, data)
                          ELSE regs
    /\ UNCHANGED <<qvars, dev, d, dlog, heap, mem, rt, th>>

ApiMemWrite == ApiMem("queue_write", "mem_write")

ApiMemRead == ApiMem("queue_read", "mem_read")

\* the caller has the result
ApiReturn ==
    /\ api.pc = "ret"
    /\ "handle" \in DOMAIN api
    /\ api' = ApiIdle(api.handle)
    /\ hist' = <<>>
    /\ UNCHANGED <<qvars, regs, dev, d, dlog, heap, mem, rt, th>>

InitWindow ==
    /\ qpc = "idle"
    /\ q = NoCall
    /\ fdpos = 0
    /\ qtrace = <<>>
    /\ qerr = "none"
    /\ drift = 0
    /\ regs \in [RegOffsets -> SUBSET {7}]
    /\ dev = NullDev("ptdr")
    /\ d = IdleDev
    /\ dlog = <<>>
    /\ heap = NoHeap
    /\ api = ApiIdle(NoHandle)
    /\ hist = <<>>
    /\ mem = ZeroMem
    /\ rt = NoRoute
    /\ th = NoThreads

NextWindow ==
    \/ PtdrInit
    \/ PtdrDestroy
    \/ ApiMemWrite
    \/ ApiMemRead
    \/ ApiReturn

SpecWindow == InitWindow /\ [][NextWindow]_vars

\* ptdr_init has returned a handle
Initialised == api.fn = "init" /\ api.pc = "ret" /\ api.ret = 1

\* C35: for every (curr_vf_num, vf_idx) that get_vf_num accepts, the window
\* [mem_start, mem_end) ptdr_init assigns lies inside
\* [MEM_BASE_ADDR, MEM_END_ADDR] and so does not reach the register region
\* that starts at KERN_BASE_ADDR.
C35_WindowInMemory ==
    Initialised =>
        /\ Le(U64(MEM_BASE_ADDR), api.handle.mem_start)
        /\ Le(api.handle.mem_start, api.handle.mem_end)
        /\ Le(api.handle.mem_end, MEM_END_ADDR)
        /\ Le(api.handle.mem_end, KERN_BASE_ADDR)

\* a function of several with an index below their number has its window in
\* the memory
C35_InMemory ==
    /\ Initialised
    /\ api.curr_vf_num = MaxVfs
    /\ api.vf_idx = MaxVfs - 1
    /\ Le(U64(MEM_BASE_ADDR), api.handle.mem_start)
    /\ Lt(api.handle.mem_start, api.handle.mem_end)
    /\ Le(api.handle.mem_end, MEM_END_ADDR)

\* mem_write or mem_read has returned after handing the transfer to the
\* transport
Forwarded ==
    /\ api.fn \in {"mem_write", "mem_read"}
    /\ api.pc = "ret"
    /\ hist # <<>>

\* C36: for all 64-bit offset and size, mem_write and mem_read hand the
\* transfer to the transport only when the byte range
\* [mem_start + offset, mem_start + offset + size), computed without
\* wrap-around, lies inside [mem_start, mem_end); otherwise they return
\* -EFAULT or -EFBIG and make no transport access.
C36_ForwardOnlyInside ==
    (api.fn \in {"mem_write", "mem_read"} /\ api.pc = "ret"
        /\ ApiCheck(api.handle) = 0) =>
        \/ WindowCheck_nowrap(api.handle, api.offset, api.size) = 0
        \/ /\ api.ret \in {-EFAULT, -EFBIG}
           /\ hist = <<>>

\* a transfer of the whole window was forwarded, one that wraps the offset
\* was refused
C36_WholeWindow ==
    /\ Forwarded
    /\ api.offset = U64(0)
    /\ api.size = Sub(api.handle.mem_end, api.handle.mem_start)
    /\ WindowCheck_nowrap(api.handle, api.offset, api.size) = 0

C36_OffsetWrapRefused ==
    /\ api.fn = "mem_read"
    /\ api.pc = "ret"
    /\ api.offset = Sub(U64(0), api.handle.mem_start)
    /\ api.handle.sign = "magic"
    /\ api.ret = -EFAULT
    /\ hist = <<>>

\* no register access of the first n operations of the running
\* ptdr_run_kernel failed in the transport
CleanUpTo(n) ==
    \A j \in 1..n : hist[j].rerr = 0 /\ hist[j].ret # -EIO

\* C37: with one caller, no transport error and an accelerator that never
\* sets ap_start itself, the start() of ptdr_run_kernel never returns busy:
\* it is reached only after a wait-ready poll that saw ap_start = 0, so
\* ptdr_run_kernel never returns -EBUSY.
C37_StartNeverBusy ==
    api.fn = "run_kernel" =>
        /\ \A i \in 1..Len(hist) :
              (hist[i].fn = "start" /\ CleanUpTo(i)) =>
                  /\ hist[i].ret # -EBUSY
                  /\ i > 1
                  /\ hist[i - 1].at = "waitready"
                  /\ hist[i - 1].ret = 1
        /\ (api.pc = "ret" /\ CleanUpTo(Len(hist))) => api.ret # -EBUSY

\* the wait saw the kernel busy, then ready, and start() was accepted
C37_Witness ==
    /\ api.fn = "run_kernel"
    /\ Len(hist) >= 3
    /\ hist[1].at = "waitready"
    /\ hist[1].ret = 0
    /\ hist[2].at = "waitready"
    /\ hist[2].ret = 1
    /\ hist[3].fn = "start"
    /\ hist[3].ret = 0
    /\ hist[3].nw = 1
    /\ CleanUpTo(3)

\* ---------------------------------------------------------------------------
\* A session of the API: ptdr_init, then ptdr_pack_input, ptdr_run_kernel,
\* ptdr_unpack_output, mem_write and mem_read in any order.
\* ptdr_run_kernel goes through the register accesses a step at a time,
\* the other functions are taken as one step.
\* ---------------------------------------------------------------------------

\* ptdr_pack_input: ptdr_dev_conf on the window of the handle; a transfer
\* that fails is the first one
ApiPackInput ==
    /\ api.fn = "none"
    /\ \E file \in {"null", "file"}, samples \in 0..MaxSamples,
          r \in RouteResults, fail \in BOOLEAN, data \in BufferWords :
          LET h == api.handle
              a == [fn |-> "pack_input", pc |-> "ret", ret |-> 0, handle |-> h,
                    samples |-> samples]
              full == CapacityCheck64(U64(samples), h.mem_start, h.mem_end)
          IN
          IF ApiCheck(h) # 0 \/ file = "null"
          THEN /\ api' = [a EXCEPT !.ret = -EINVAL]
               /\ regs' = regs
          ELSE IF full # 0
          THEN /\ api' = [a EXCEPT !.ret = full]
               /\ regs' = regs
          ELSE IF r # 0
          THEN /\ api' = [a EXCEPT !.ret = r]
               /\ regs' = regs
          ELSE IF fail
          THEN /\ api' = [a EXCEPT !.ret = -EIO]
               /\ regs' = regs
          ELSE /\ api' = a
               /\ regs' = DeviceWrite(regs, h, h.mem_start,
                                      ptdr_data_size64(U64(samples)), data)
    /\ hist' = <<>>
    /\ UNCHANGED <<qvars, dev, d, dlog, heap, mem, rt, th>>

\* ptdr_unpack_output: ptdr_dev_get_durv reads the header and the durations
ApiUnpackOutput ==
    /\ api.fn = "none"
    /\ \E samples \in 0..MaxSamples, r \in {0, -EIO, -EINVAL} :
          api' = [fn |-> "unpack_output", pc |-> "ret", handle |-> api.handle,
                  samples |-> samples,
                  ret |-> IF ApiCheck(api.handle) # 0 THEN -EINVAL ELSE r]
    /\ hist' = <<>>
    /\ UNCHANGED <<qvars, regs, dev, d, dlog, heap, mem, rt, th>>

\* entry of ptdr_run_kernel through the handle of the API
ApiRunCall ==
    /\ api.fn = "none"
    /\ d.pc = "idle"
    /\ qpc = "idle"
    /\ hist' = <<>>
    /\ IF ApiCheck(api.handle) # 0
       THEN /\ api' = [fn |-> "run_kernel", pc |-> "ret", ret |-> -EINVAL,
                       handle |-> api.handle, timeout |-> 0, count |-> 0]
            /\ UNCHANGED <<qvars, d, dlog>>
       ELSE /\ \E t \in Timeouts :
                  api' = [fn |-> "run_kernel", pc |-> "waitready", ret |-> 0,
                          handle |-> api.handle, timeout |-> t, count |-> t]
            /\ DevEnter("isready")
    /\ UNCHANGED <<regs, dev, heap, mem, rt, th>>

\* the only function of the device, with the index 0 or with an index that
\* get_vf_num accepts although it is not below the number of functions
SessionInit == PtdrInitFrom({1}, {0, 2})

NextSession ==
    \/ SessionInit
    \/ PtdrDestroy
    \/ ApiPackInput
    \/ ApiUnpackOutput
    \/ ApiMemWrite
    \/ ApiMemRead
    \/ ApiRunCall
    \/ QueueSeek
    \/ QueueXfer
    \/ DevReadDone
    \/ DevWriteDone
    \/ RunStep
    \/ ApiReturn
    \/ HwStatus
    \/ HwSelfClear

SpecSession == InitWindow /\ [][NextSession]_vars

\* the caller holds a handle ptdr_init returned
HasHandle == api.handle.sign = "magic"

\* the window of the handle is where ptdr_init means it to be
WindowInMemory ==
    /\ Le(U64(MEM_BASE_ADDR), api.handle.mem_start)
    /\ Le(api.handle.mem_end, MEM_END_ADDR)

\* C38: after a successful ptdr_init, whatever sequence of ptdr_pack_input,
\* ptdr_run_kernel, ptdr_unpack_output, mem_read and mem_write follows,
\* on a register file whose bit 7 only the host's writes change,
\* auto_restart stays disabled: no value written to the control register
\* has bit 7 set.
C38_AutoRestartStaysOff ==
    HasHandle =>
        /\ 7 \notin regs[PTDR_CTRL_ADDR_CTRL]
        /\ \A i \in 1..Len(dlog) :
              (dlog[i].op = "W" /\ dlog[i].addr = CtrlAddr) => 7 \notin dlog[i].val

\* start() and continue_() of a run have written the register, auto_restart
\* off
C38_RunWrites ==
    /\ HasHandle
    /\ WindowInMemory
    /\ api.fn = "run_kernel"
    /\ api.pc = "ret"
    /\ api.ret = 0
    /\ \E i \in 1..Len(hist) : hist[i].fn = "continue" /\ hist[i].nw = 1
    /\ 7 \notin regs[PTDR_CTRL_ADDR_CTRL]

\* auto_restart is switched on only by a transfer to device memory: on a
\* window that is not in the memory, or by a mem_write whose size passed
\* the check through wrap-around
C38_OnlyThroughMemory ==
    [][(HasHandle' /\ 7 \notin regs[PTDR_CTRL_ADDR_CTRL]
           /\ 7 \in regs'[PTDR_CTRL_ADDR_CTRL]) =>
          \/ ~WindowInMemory'
          \/ /\ api'.fn = "mem_write"
             /\ WindowCheck_nowrap(api'.handle, api'.offset, api'.size) # 0]_vars

\* ---------------------------------------------------------------------------
\* ptdr_run_kernel with timeout_us = 0, followed for as long as it polls.
\* Of the operations of a run only the first one that failed is kept in
\* hist, so that a wait of any length is one loop of the state graph.
\* ---------------------------------------------------------------------------
RunCallLive ==
    /\ api.fn = "none"
    /\ d.pc = "idle"
    /\ qpc = "idle"
    /\ api' = [NoApi EXCEPT !.fn = "run_kernel", !.pc = "waitready"]
    /\ DevEnter("isready")
    /\ hist' = <<>>
    /\ UNCHANGED <<regs, dev, heap, mem, rt, th>>

RunStepLive ==
    /\ api.fn = "run_kernel"
    /\ api.pc # "ret"
    /\ d.pc = "ret"
    /\ LET n == ptdr_run_kernel(api.pc, api.timeout, api.count, d.ret) IN
       /\ hist' = IF hist = <<>> /\ (ReadError(dlog) \/ d.ret = -EIO)
                  THEN <<Entry(api.pc, d.fn, d.ret, dlog, regs)>>
                  ELSE hist
       /\ api' = [api EXCEPT !.pc = n.pc, !.count = n.count, !.ret = n.ret]
       /\ IF n.call = "none"
          THEN /\ d' = IdleDev
               /\ dlog' = <<>>
               /\ UNCHANGED qvars
          ELSE DevEnter(n.call)
    /\ UNCHANGED <<regs, dev, heap, mem, rt, th>>

NextLive ==
    \/ RunCallLive
    \/ QueueSeek
    \/ QueueXfer
    \/ DevReadDone
    \/ DevWriteDone
    \/ RunStepLive
    \/ RunReturn
    \/ HwStatus
    \/ HwSelfClear

\* the caller's loop goes on polling, each register access comes back, and
\* the accelerator takes the start (ap_start clears on handshake)
SpecLive ==
    /\ InitRun
    /\ [][NextLive]_vars
    /\ WF_vars(RunStepLive)
    /\ WF_vars(QueueSeek)
    /\ WF_vars(QueueXfer)
    /\ WF_vars(DevReadDone)
    /\ WF_vars(DevWriteDone)
    /\ WF_vars(HwSelfClear)

\* ptdr_run_kernel(dev, 0) is running; it has returned 0; an access of it
\* has failed in the transport
Running0 == api.fn = "run_kernel" /\ api.timeout = 0 /\ api.pc # "ret"

Returned0 == api.fn = "run_kernel" /\ api.pc = "ret" /\ api.ret = 0

TransportFailed == hist # <<>>

\* C39: with timeout_us = 0 and no transport error, on an accelerator that
\* clears ap_start after every start it accepts (and asserts ap_done or
\* ap_idle in the end), under weak fairness of the polling and of the
\* accelerator's steps ptdr_run_kernel eventually returns 0; it never
\* returns the timeout error -EAGAIN.
C39_EventuallyReturns ==
    /\ Running0 ~> (Returned0 \/ TransportFailed)
    /\ []((api.fn = "run_kernel" /\ api.timeout = 0 /\ api.pc = "ret")
            => api.ret # -EAGAIN)

\* a run with timeout 0 is in its second wait, has polled the kernel
\* busy there and no access has failed
C39_Witness ==
    /\ Running0
    /\ api.pc = "wd_ready"
    /\ d.pc = "ret"
    /\ d.ret = 0
    /\ ~TransportFailed

\* ... and one has returned 0 while ap_done and ap_idle are both 0
C39_WitnessReturned ==
    /\ Returned0
    /\ api.timeout = 0
    /\ ~TransportFailed
    /\ regs[PTDR_CTRL_ADDR_CTRL] \cap {1, 2} = {}

====
